---- MODULE Spec2Model ----
(***************************************************************************)
(* State-machine model of toxcore/Messenger.c (multi-device friend list,   *)
(* receipts, file transfers, the do_friends loop).                         *)
(*                                                                         *)
(* C functions are operators over a machine state S, a record              *)
(*   fl   the friend list (m->friendlist), indexed from 0                  *)
(*   nf   m->numfriends                                                    *)
(*   co   the friend connections / crypto connections of the transport     *)
(*   cbs  the callbacks fired by the running call, in order                *)
(*   out  the packets the transport accepted from the running call         *)
(* and return the new S (or [S, ret] when the C function returns a value). *)
(* Answers of the transport that the messenger cannot predict are the      *)
(* fields of an environment record E, chosen anew for every call.          *)
(***************************************************************************)
EXTENDS Integers, Sequences, FiniteSets, TLC

\* ---------------------------------------------------------------- bounds
MaxFriends == 2
MaxDevices == 2
MaxConns == 3
MaxMsgId == 3
MaxTime == 40
\* number of file pipes per direction (MAX_CONCURRENT_FILE_PIPES, scaled)
MAX_CONCURRENT_FILE_PIPES == 2

\* ------------------------------------------------------------- constants
NOFRIEND == 0
FRIEND_ADDED == 1
FRIEND_REQUESTED == 2
FRIEND_CONFIRMED == 3
FRIEND_ONLINE == 4

NO_FDEV == 0
FDEV_PENDING == 1
FDEV_CONFIRMED == 2
FDEV_ONLINE == 3

FAERR_TOOLONG == -1
FAERR_NOMESSAGE == -2
FAERR_OWNKEY == -3
FAERR_ALREADYSENT == -4
FAERR_BADCHECKSUM == -6
FAERR_SETNEWNOSPAM == -7
FAERR_NOMEM == -8

CONNECTION_NONE == 0
CONNECTION_TCP == 1
CONNECTION_UDP == 2
CONNECTION_UNKNOWN == 3

FILESTATUS_NONE == 0
FILESTATUS_NOT_ACCEPTED == 1
FILESTATUS_TRANSFERRING == 2
FILESTATUS_FINISHED == 3

FILE_PAUSE_NOT == 0
FILE_PAUSE_US == 1
FILE_PAUSE_OTHER == 2

FILECONTROL_ACCEPT == 0
FILECONTROL_PAUSE == 1
FILECONTROL_KILL == 2
FILECONTROL_SEEK == 3

MAX_CRYPTO_DATA_SIZE == 1373
CRYPTO_MIN_QUEUE_LENGTH == 64
MAX_FILE_DATA_SIZE == MAX_CRYPTO_DATA_SIZE - 2
MIN_SLOTS_FREE == CRYPTO_MIN_QUEUE_LENGTH \div 4
FRIENDREQUEST_TIMEOUT == 5
MAX_FRIEND_REQUEST_DATA_SIZE == 1016
MAX_NAME_LENGTH == 128
MAX_STATUSMESSAGE_LENGTH == 1007

USERSTATUS_NONE == 0
USERSTATUS_INVALID == 3

\* uint64_t arithmetic, with the word narrowed to 30 bits
U64 == 2^30
UINT64_MAX == U64 - 1

u64(x) == x % U64

FriendIdx == 0 .. (MaxFriends - 1)
DevIdx == 0 .. (MaxDevices - 1)
ConnIds == 0 .. (MaxConns - 1)
PipeIdx == 0 .. (MAX_CONCURRENT_FILE_PIPES - 1)

\* public keys: 0 is the all-zero key of a zeroed device, SelfPK our own key
SelfPK == 9
InvalidPK == 8

Min(a, b) == IF a < b THEN a ELSE b

\* ----------------------------------------------------------------- state
\* friendlist, numfriends: the Messenger; conns: the transport; now: unix_time();
\* cbs, out: callbacks fired and packets written by the last call; last: the last
\* call and its return value; hist: what happened so far, for the properties;
\* peer: the Messenger and transport of the friend at the other end; wire: the
\* packets written by one of the two and not yet received by the other
VARIABLES friendlist, numfriends, conns, now, cbs, out, last, hist, peer, wire, own

vars == <<friendlist, numfriends, conns, now, cbs, out, last, hist, peer, wire, own>>

ZeroDev == [status |-> NO_FDEV, real_pk |-> 0, friendcon_id |-> 0]

ZeroFT == [status |-> FILESTATUS_NONE, size |-> 0, transferred |-> 0, requested |-> 0,
           slots_allocated |-> 0, paused |-> FILE_PAUSE_NOT, last_packet_number |-> 0]

ZeroFriend ==
    [status |-> NOFRIEND,
     dev_count |-> 0,
     dev_list |-> [d \in DevIdx |-> ZeroDev],
     friendrequest_lastsent |-> 0,
     friendrequest_timeout |-> 0,
     friendrequest_nospam |-> 0,
     info_size |-> 0,
     name |-> 0,
     name_length |-> 0,
     statusmessage |-> 0,
     statusmessage_length |-> 0,
     userstatus |-> USERSTATUS_NONE,
     is_typing |-> 0,
     name_sent |-> 0,
     statusmessage_sent |-> 0,
     userstatus_sent |-> 0,
     user_istyping |-> 0,
     user_istyping_sent |-> 0,
     message_id |-> 0,
     receipts |-> <<>>,
     file_sending |-> [p \in PipeIdx |-> ZeroFT],
     file_receiving |-> [p \in PipeIdx |-> ZeroFT],
     num_sending_files |-> 0,
     last_connection_udp_tcp |-> CONNECTION_NONE,
     last_seen_time |-> 0]

\* the own profile of the messenger
ZeroOwn ==
    [name |-> 0, name_length |-> 0, statusmessage |-> 0, statusmessage_length |-> 0,
     userstatus |-> USERSTATUS_NONE]

NoCb == <<-1, -1>>

ZeroConn == [alive |-> FALSE, pk |-> 0, connected |-> FALSE, cb |-> NoCb, sent |-> 0, acked |-> 0]

Machine == [fl |-> friendlist, nf |-> numfriends, co |-> conns, cbs |-> <<>>, out |-> <<>>]

\* ------------------------------------------------------------- transport
\* FriendConn: new_tox_conn hands out the lowest free handle, -1 when none is left
FreeConns(S) == {c \in ConnIds : ~S.co[c].alive}

new_tox_conn(S, real_pk) ==
    IF FreeConns(S) = {}
    THEN [S |-> S, ret |-> -1]
    ELSE LET c == CHOOSE x \in FreeConns(S) : \A y \in FreeConns(S) : x <= y
         IN  [S |-> [S EXCEPT !.co[c] = [ZeroConn EXCEPT !.alive = TRUE, !.pk = real_pk]],
              ret |-> c]

kill_tox_conn(S, c) ==
    IF c \in ConnIds /\ S.co[c].alive THEN [S EXCEPT !.co[c] = ZeroConn] ELSE S

toxconn_set_callbacks(S, c, f, d) ==
    IF c \in ConnIds /\ S.co[c].alive THEN [S EXCEPT !.co[c].cb = <<f, d>>] ELSE S

toxconn_is_connected(S, c) == c \in ConnIds /\ S.co[c].alive /\ S.co[c].connected

\* the crypto connection of a friend connection, -1 while it has none
toxconn_crypt_connection_id(S, c) == IF toxconn_is_connected(S, c) THEN c ELSE -1

\* NetCrypto: a write is numbered with the connection's next packet number;
\* it fails on a missing connection, and when the send queue takes no more:
\* the connection is not in E.acc, or its packet numbers reached E.cap
write_cryptpacket(S, E, cid, pkt) ==
    IF cid \in ConnIds /\ cid \in E.acc /\ S.co[cid].sent < E.cap
    THEN [S |-> [S EXCEPT !.co[cid].sent = @ + 1,
                          !.out = Append(@, [conn |-> cid, num |-> S.co[cid].sent, pkt |-> pkt])],
          ret |-> S.co[cid].sent]
    ELSE [S |-> S, ret |-> -1]

\* 0 when packet number `number` was received by the peer, else -1
cryptpacket_received(S, cid, number) ==
    IF cid \in ConnIds /\ number < S.co[cid].acked THEN 0 ELSE -1

crypto_num_free_sendqueue_slots(E, cid) == IF cid \in ConnIds THEN E.free[cid] ELSE 0

max_speed_reached(E, cid) == IF cid \in ConnIds THEN cid \in E.maxspeed ELSE TRUE

\* ---------------------------------------------------------------- roster
friend_not_valid(S, friendnumber) ==
    ~(friendnumber \in 0 .. (S.nf - 1) /\ S.fl[friendnumber].status # 0)

FriendsWithKey(S, real_pk) ==
    {i \in 0 .. (S.nf - 1) :
        /\ S.fl[i].status > 0
        /\ \E d \in 0 .. (S.fl[i].dev_count - 1) : S.fl[i].dev_list[d].real_pk = real_pk}

getfriend_id(S, real_pk) ==
    IF FriendsWithKey(S, real_pk) = {} THEN -1
    ELSE CHOOSE i \in FriendsWithKey(S, real_pk) : \A j \in FriendsWithKey(S, real_pk) : i <= j

public_key_valid(real_pk) == real_pk # InvalidPK /\ real_pk # 0

\* friend address: <<public key, nospam, checksum>>; the checksum XOR-folds the
\* bytes before it into two bytes, byte i into checksum[i % 2].  Keys and
\* nospams are one byte here, so byte 0 (the key) lands in checksum[0] and
\* byte 1 (the nospam) in checksum[1].
address_checksum(address) == <<address[1], address[2]>>

getaddress(real_pk, nospam) == <<real_pk, nospam, address_checksum(<<real_pk, nospam>>)>>

conn_of(S, f, d) == S.fl[f].dev_list[d].friendcon_id

\* send_online_packet that writes nothing
send_online_packet_dropped(S, E, friendnumber, device_num) ==
    [S |-> S, ret |-> 0]

send_online_packet(S, E, friendnumber, device_num) ==
    IF friend_not_valid(S, friendnumber)
    THEN [S |-> S, ret |-> 0]
    ELSE LET w == write_cryptpacket(S, E,
                      toxconn_crypt_connection_id(S, conn_of(S, friendnumber, device_num)),
                      <<"ONLINE">>)
         IN  [S |-> w.S, ret |-> IF w.ret # -1 THEN 1 ELSE 0]

send_offline_packet(S, E, friendcon_id) ==
    LET w == write_cryptpacket(S, E, toxconn_crypt_connection_id(S, friendcon_id), <<"OFFLINE">>)
    IN  [S |-> w.S, ret |-> IF w.ret # -1 THEN 1 ELSE 0]

FreeSlots(S) == {i \in 0 .. Min(S.nf, MaxFriends - 1) : S.fl[i].status = NOFRIEND}

init_new_friend(S, E, real_pk, status) ==
    LET nc == new_tox_conn(S, real_pk)
        friendcon_id == nc.ret
    IN  IF friendcon_id = -1 \/ FreeSlots(S) = {}
        THEN [S |-> S, ret |-> FAERR_NOMEM]
        ELSE
        LET i == CHOOSE x \in FreeSlots(S) : \A y \in FreeSlots(S) : x <= y
            S1 == [nc.S EXCEPT
                     !.fl[i] = [ZeroFriend EXCEPT
                                  !.status = status,
                                  !.dev_list[0] = [status |-> FDEV_CONFIRMED,
                                                   real_pk |-> real_pk,
                                                   friendcon_id |-> friendcon_id],
                                  !.dev_count = 1],
                     !.nf = IF S.nf = i THEN S.nf + 1 ELSE S.nf]
            S2 == toxconn_set_callbacks(S1, friendcon_id, i, 0)
            S3 == IF toxconn_is_connected(S2, friendcon_id)
                  THEN send_online_packet([S2 EXCEPT !.fl[i].dev_list[0].status = FDEV_ONLINE],
                                          E, i, 0).S
                  ELSE S2
        IN  [S |-> S3, ret |-> i]

init_new_device_friend(S, E, friend_number, real_pk, status) ==
    LET dev_count == S.fl[friend_number].dev_count
        nc == new_tox_conn(S, real_pk)
        friendcon_id == nc.ret
        S0 == nc.S
        \* dev_list[dev_count] is the zeroed tail entry, the entries before it are in use
        slots == {i \in 1 .. dev_count : i \in DevIdx /\ S0.fl[friend_number].dev_list[i].status = NO_FDEV}
    IN  IF dev_count + 1 > MaxDevices \/ friendcon_id = -1
        THEN [S |-> S, ret |-> FAERR_NOMEM]
        ELSE IF S0.fl[friend_number].status >= FRIEND_CONFIRMED /\ slots # {}
        THEN LET i == CHOOSE x \in slots : \A y \in slots : x <= y
                 S1 == [S0 EXCEPT !.fl[friend_number].dev_list[i] =
                                       [status |-> status, real_pk |-> real_pk,
                                        friendcon_id |-> friendcon_id],
                                  !.fl[friend_number].dev_count = @ + 1]
                 S2 == toxconn_set_callbacks(S1, friendcon_id, friend_number, i)
                 S3 == IF toxconn_is_connected(S2, friendcon_id)
                       THEN send_online_packet(
                                [S2 EXCEPT !.fl[friend_number].dev_list[i].status = FDEV_ONLINE],
                                E, friend_number, i).S
                       ELSE S2
             IN  [S |-> S3, ret |-> i]
        ELSE [S |-> S0, ret |-> FAERR_NOMEM]

\* m_addfriend that keeps the stored nospam of a pending friend
m_addfriend_nospam_kept(S, E, address, length) ==
    LET real_pk == address[1]
        nospam == address[2]
        friend_id == getfriend_id(S, real_pk)
    IN  IF length > MAX_FRIEND_REQUEST_DATA_SIZE THEN [S |-> S, ret |-> FAERR_TOOLONG]
        ELSE IF ~public_key_valid(real_pk) THEN [S |-> S, ret |-> FAERR_BADCHECKSUM]
        ELSE IF address[3] # address_checksum(address) THEN [S |-> S, ret |-> FAERR_BADCHECKSUM]
        ELSE IF length < 1 THEN [S |-> S, ret |-> FAERR_NOMESSAGE]
        ELSE IF real_pk = SelfPK THEN [S |-> S, ret |-> FAERR_OWNKEY]
        ELSE IF friend_id # -1
        THEN IF S.fl[friend_id].status >= FRIEND_CONFIRMED
             THEN [S |-> S, ret |-> FAERR_ALREADYSENT]
             ELSE IF S.fl[friend_id].friendrequest_nospam = nospam
             THEN [S |-> S, ret |-> FAERR_ALREADYSENT]
             ELSE [S |-> S, ret |-> FAERR_SETNEWNOSPAM]
        ELSE LET r == init_new_friend(S, E, real_pk, FRIEND_ADDED)
             IN  IF r.ret < 0 THEN r
                 ELSE [S |-> [r.S EXCEPT !.fl[r.ret].friendrequest_timeout = FRIENDREQUEST_TIMEOUT,
                                         !.fl[r.ret].info_size = length,
                                         !.fl[r.ret].friendrequest_nospam = nospam],
                       ret |-> r.ret]

m_addfriend(S, E, address, length) ==
    LET real_pk == address[1]
        nospam == address[2]
        friend_id == getfriend_id(S, real_pk)
    IN  IF length > MAX_FRIEND_REQUEST_DATA_SIZE THEN [S |-> S, ret |-> FAERR_TOOLONG]
        ELSE IF ~public_key_valid(real_pk) THEN [S |-> S, ret |-> FAERR_BADCHECKSUM]
        ELSE IF address[3] # address_checksum(address) THEN [S |-> S, ret |-> FAERR_BADCHECKSUM]
        ELSE IF length < 1 THEN [S |-> S, ret |-> FAERR_NOMESSAGE]
        ELSE IF real_pk = SelfPK THEN [S |-> S, ret |-> FAERR_OWNKEY]
        ELSE IF friend_id # -1
        THEN IF S.fl[friend_id].status >= FRIEND_CONFIRMED
             THEN [S |-> S, ret |-> FAERR_ALREADYSENT]
             ELSE IF S.fl[friend_id].friendrequest_nospam = nospam
             THEN [S |-> S, ret |-> FAERR_ALREADYSENT]
             ELSE [S |-> [S EXCEPT !.fl[friend_id].friendrequest_nospam = nospam],
                   ret |-> FAERR_SETNEWNOSPAM]
        ELSE LET r == init_new_friend(S, E, real_pk, FRIEND_ADDED)
             IN  IF r.ret < 0 THEN r
                 ELSE [S |-> [r.S EXCEPT !.fl[r.ret].friendrequest_timeout = FRIENDREQUEST_TIMEOUT,
                                         !.fl[r.ret].info_size = length,
                                         !.fl[r.ret].friendrequest_nospam = nospam],
                       ret |-> r.ret]

\* m_addfriend_norequest that does not look for the key among the friends
m_addfriend_norequest_unchecked(S, E, real_pk) ==
    IF ~public_key_valid(real_pk) THEN [S |-> S, ret |-> FAERR_BADCHECKSUM]
    ELSE IF real_pk = SelfPK THEN [S |-> S, ret |-> FAERR_OWNKEY]
    ELSE init_new_friend(S, E, real_pk, FRIEND_CONFIRMED)

m_addfriend_norequest(S, E, real_pk) ==
    IF getfriend_id(S, real_pk) # -1 THEN [S |-> S, ret |-> FAERR_ALREADYSENT]
    ELSE IF ~public_key_valid(real_pk) THEN [S |-> S, ret |-> FAERR_BADCHECKSUM]
    ELSE IF real_pk = SelfPK THEN [S |-> S, ret |-> FAERR_OWNKEY]
    ELSE init_new_friend(S, E, real_pk, FRIEND_CONFIRMED)

m_add_device_to_friend(S, E, address, friend_number) ==
    LET real_pk == address[1]
        nospam == address[2]
        friend_id == getfriend_id(S, real_pk)
    IN  IF ~public_key_valid(real_pk) THEN [S |-> S, ret |-> FAERR_BADCHECKSUM]
        ELSE IF address[3] # address_checksum(address) THEN [S |-> S, ret |-> FAERR_BADCHECKSUM]
        ELSE IF real_pk = SelfPK THEN [S |-> S, ret |-> FAERR_OWNKEY]
        ELSE IF friend_id # -1
        THEN IF S.fl[friend_id].status >= FRIEND_CONFIRMED
             THEN [S |-> S, ret |-> FAERR_ALREADYSENT]
             ELSE IF S.fl[friend_id].friendrequest_nospam = nospam
             THEN [S |-> S, ret |-> FAERR_ALREADYSENT]
             ELSE [S |-> [S EXCEPT !.fl[friend_id].friendrequest_nospam = nospam],
                   ret |-> FAERR_SETNEWNOSPAM]
        ELSE init_new_device_friend(S, E, friend_number, real_pk, FDEV_PENDING)

m_add_device_to_friend_confirmed(S, E, real_pk, friend_number) ==
    LET friend_id == getfriend_id(S, real_pk)
    IN  IF ~public_key_valid(real_pk) THEN [S |-> S, ret |-> FAERR_BADCHECKSUM]
        ELSE IF real_pk = SelfPK THEN [S |-> S, ret |-> FAERR_OWNKEY]
        ELSE IF friend_id # -1 /\ S.fl[friend_id].status >= FRIEND_CONFIRMED
        THEN [S |-> S, ret |-> FAERR_ALREADYSENT]
        ELSE init_new_device_friend(S, E, friend_number, real_pk, FDEV_CONFIRMED)

\* -------------------------------------------------------------- receipts
clear_receipts(S, friendnumber) ==
    IF friend_not_valid(S, friendnumber) THEN S
    ELSE [S EXCEPT !.fl[friendnumber].receipts = <<>>]

\* add_receipt with the new entry linked in at the head of the list
add_receipt_at_head(S, friendnumber, packet_num, msg_id) ==
    IF friend_not_valid(S, friendnumber) THEN S
    ELSE [S EXCEPT !.fl[friendnumber].receipts =
                        <<[packet_num |-> packet_num, msg_id |-> msg_id]>> \o @]

add_receipt(S, friendnumber, packet_num, msg_id) ==
    IF friend_not_valid(S, friendnumber) THEN S
    ELSE [S EXCEPT !.fl[friendnumber].receipts =
                        Append(@, [packet_num |-> packet_num, msg_id |-> msg_id])]

friend_received_packet(S, friendnumber, number) ==
    IF friend_not_valid(S, friendnumber) THEN -1
    ELSE cryptpacket_received(S, toxconn_crypt_connection_id(S, conn_of(S, friendnumber, 0)), number)

RECURSIVE do_receipts(_, _)
do_receipts(S, friendnumber) ==
    IF friend_not_valid(S, friendnumber) THEN S
    ELSE LET receipts == S.fl[friendnumber].receipts
         IN  IF receipts = <<>> THEN S
             ELSE IF friend_received_packet(S, friendnumber, Head(receipts).packet_num) = -1 THEN S
             ELSE do_receipts([S EXCEPT !.cbs = Append(@, <<"read_receipt", friendnumber,
                                                            Head(receipts).msg_id>>),
                                        !.fl[friendnumber].receipts = Tail(receipts)],
                              friendnumber)

\* ------------------------------------------------------------- messages
\* one pass of the device loop of m_send_message_generic, from device dev on
RECURSIVE send_to_devices(_, _, _, _, _)
send_to_devices(S, E, friendnumber, dev, packet_num) ==
    IF dev >= S.fl[friendnumber].dev_count THEN [S |-> S, ret |-> packet_num]
    ELSE IF S.fl[friendnumber].dev_list[dev].status = FDEV_ONLINE
    THEN LET w == write_cryptpacket(S, E,
                      toxconn_crypt_connection_id(S, conn_of(S, friendnumber, dev)),
                      <<"MESSAGE">>)
         IN  IF w.ret = -1 /\ packet_num # -1
             THEN send_to_devices(w.S, E, friendnumber, dev + 1, packet_num)
             ELSE send_to_devices(w.S, E, friendnumber, dev + 1, w.ret)
    ELSE send_to_devices(S, E, friendnumber, dev + 1, packet_num)

\* m_send_message_generic with the incremented id not stored back
m_send_message_generic_id_not_stored(S, E, friendnumber, type, length) ==
    IF type > 1 THEN [S |-> S, ret |-> -5, id |-> 0]
    ELSE IF friend_not_valid(S, friendnumber) THEN [S |-> S, ret |-> -1, id |-> 0]
    ELSE IF length >= MAX_CRYPTO_DATA_SIZE THEN [S |-> S, ret |-> -2, id |-> 0]
    ELSE IF S.fl[friendnumber].status # FRIEND_ONLINE THEN [S |-> S, ret |-> -3, id |-> 0]
    ELSE LET w == send_to_devices(S, E, friendnumber, 0, -1)
         IN  IF w.ret = -1 THEN [S |-> w.S, ret |-> -4, id |-> 0]
             ELSE LET msg_id == w.S.fl[friendnumber].message_id + 1
                  IN  [S |-> add_receipt(w.S, friendnumber, w.ret, msg_id),
                       ret |-> 0, id |-> msg_id]

\* m_send_message_generic that counts the message before it knows the packet went out
m_send_message_generic_counted_early(S, E, friendnumber, type, length) ==
    IF type > 1 THEN [S |-> S, ret |-> -5, id |-> 0]
    ELSE IF friend_not_valid(S, friendnumber) THEN [S |-> S, ret |-> -1, id |-> 0]
    ELSE IF length >= MAX_CRYPTO_DATA_SIZE THEN [S |-> S, ret |-> -2, id |-> 0]
    ELSE IF S.fl[friendnumber].status # FRIEND_ONLINE THEN [S |-> S, ret |-> -3, id |-> 0]
    ELSE LET w == send_to_devices(S, E, friendnumber, 0, -1)
             msg_id == w.S.fl[friendnumber].message_id + 1
             S1 == [w.S EXCEPT !.fl[friendnumber].message_id = msg_id]
         IN  IF w.ret = -1 THEN [S |-> S1, ret |-> -4, id |-> 0]
             ELSE [S |-> add_receipt(S1, friendnumber, w.ret, msg_id), ret |-> 0, id |-> msg_id]

\* ret is the error code; id the message id handed back on success
m_send_message_generic(S, E, friendnumber, type, length) ==
    IF type > 1 THEN [S |-> S, ret |-> -5, id |-> 0]
    ELSE IF friend_not_valid(S, friendnumber) THEN [S |-> S, ret |-> -1, id |-> 0]
    ELSE IF length >= MAX_CRYPTO_DATA_SIZE THEN [S |-> S, ret |-> -2, id |-> 0]
    ELSE IF S.fl[friendnumber].status # FRIEND_ONLINE THEN [S |-> S, ret |-> -3, id |-> 0]
    ELSE LET w == send_to_devices(S, E, friendnumber, 0, -1)
         IN  IF w.ret = -1 THEN [S |-> w.S, ret |-> -4, id |-> 0]
             ELSE LET msg_id == w.S.fl[friendnumber].message_id + 1
                  IN  [S |-> add_receipt([w.S EXCEPT !.fl[friendnumber].message_id = msg_id],
                                         friendnumber, w.ret, msg_id),
                       ret |-> 0, id |-> msg_id]

\* 1 when the packet was written to the connection of device 0, else 0
write_cryptpacket_id(S, E, friendnumber, pkt, length) ==
    IF friend_not_valid(S, friendnumber) THEN [S |-> S, ret |-> 0]
    ELSE IF length >= MAX_CRYPTO_DATA_SIZE \/ S.fl[friendnumber].status # FRIEND_ONLINE
    THEN [S |-> S, ret |-> 0]
    ELSE LET w == write_cryptpacket(S, E,
                      toxconn_crypt_connection_id(S, conn_of(S, friendnumber, 0)), pkt)
         IN  [S |-> w.S, ret |-> IF w.ret # -1 THEN 1 ELSE 0]

\* ------------------------------------------------------ connection status
m_get_friend_connectionstatus(S, E, friendnumber) ==
    IF friend_not_valid(S, friendnumber) THEN -1
    ELSE IF S.fl[friendnumber].status = FRIEND_ONLINE
    THEN LET st == E.stat[conn_of(S, friendnumber, 0)]
         IN  IF st.direct THEN CONNECTION_UDP
             ELSE IF st.relays > 0 THEN CONNECTION_TCP
             ELSE CONNECTION_UNKNOWN
    ELSE CONNECTION_NONE

\* check_friend_tcp_udp that reports the kind whether or not it changed
check_friend_tcp_udp_always_reports(S, E, friendnumber) ==
    LET last_connection_udp_tcp == S.fl[friendnumber].last_connection_udp_tcp
        ret0 == m_get_friend_connectionstatus(S, E, friendnumber)
    IN  IF ret0 = -1 THEN S
        ELSE IF ret0 = CONNECTION_UNKNOWN /\ last_connection_udp_tcp = CONNECTION_UDP THEN S
        ELSE LET ret == IF ret0 = CONNECTION_UNKNOWN THEN CONNECTION_TCP ELSE ret0
                 S1 == [S EXCEPT !.cbs = Append(@, <<"connection_status", friendnumber, ret>>)]
             IN  [S1 EXCEPT !.fl[friendnumber].last_connection_udp_tcp = ret]

check_friend_tcp_udp(S, E, friendnumber) ==
    LET last_connection_udp_tcp == S.fl[friendnumber].last_connection_udp_tcp
        ret0 == m_get_friend_connectionstatus(S, E, friendnumber)
    IN  IF ret0 = -1 THEN S
        ELSE IF ret0 = CONNECTION_UNKNOWN /\ last_connection_udp_tcp = CONNECTION_UDP THEN S
        ELSE LET ret == IF ret0 = CONNECTION_UNKNOWN THEN CONNECTION_TCP ELSE ret0
                 S1 == IF last_connection_udp_tcp # ret
                       THEN [S EXCEPT !.cbs = Append(@, <<"connection_status", friendnumber, ret>>)]
                       ELSE S
             IN  [S1 EXCEPT !.fl[friendnumber].last_connection_udp_tcp = ret]

break_files(S, friendnumber) ==
    [S EXCEPT !.fl[friendnumber].file_sending =
                   [p \in PipeIdx |-> [@[p] EXCEPT !.status = FILESTATUS_NONE]],
              !.fl[friendnumber].file_receiving =
                   [p \in PipeIdx |-> [@[p] EXCEPT !.status = FILESTATUS_NONE]]]

check_friend_connectionstatus(S, E, friendnumber, status) ==
    IF status = NOFRIEND THEN S
    ELSE LET was_online == S.fl[friendnumber].status = FRIEND_ONLINE
             is_online == status = FRIEND_ONLINE
             S1 == IF is_online # was_online
                   THEN LET Sa == IF was_online
                                  THEN clear_receipts(break_files(S, friendnumber), friendnumber)
                                  ELSE [S EXCEPT !.fl[friendnumber].name_sent = 0,
                                                 !.fl[friendnumber].userstatus_sent = 0,
                                                 !.fl[friendnumber].statusmessage_sent = 0,
                                                 !.fl[friendnumber].user_istyping_sent = 0]
                        IN  [Sa EXCEPT !.fl[friendnumber].status = status]
                   ELSE S
         IN  check_friend_tcp_udp(S1, E, friendnumber)

set_friend_status(S, E, friendnumber, status) ==
    LET S1 == [check_friend_connectionstatus(S, E, friendnumber, status)
                  EXCEPT !.fl[friendnumber].status = status]
    IN  IF status \in {FRIEND_ADDED, FRIEND_REQUESTED}
        THEN [S1 EXCEPT !.fl[friendnumber].dev_list[0].status = FDEV_PENDING]
        ELSE IF status = FRIEND_CONFIRMED
        THEN [S1 EXCEPT !.fl[friendnumber].dev_list[0].status = FDEV_CONFIRMED]
        ELSE IF status = FRIEND_ONLINE
        THEN [S1 EXCEPT !.fl[friendnumber].dev_list[0].status = FDEV_ONLINE]
        ELSE S1

set_device_status(S, friendnumber, device_id, status) ==
    [S EXCEPT !.fl[friendnumber].dev_list[device_id].status = status]

handle_status(S, E, friend_id, device_id, status) ==
    IF status
    THEN send_online_packet(set_device_status(S, friend_id, device_id, FDEV_ONLINE),
                            E, friend_id, device_id).S
    ELSE IF S.fl[friend_id].status = FRIEND_ONLINE
    THEN set_device_status(S, friend_id, device_id, FDEV_CONFIRMED)
    ELSE S

\* the friend list's length after a removal: one past the last slot in use
LastUsed(S) ==
    LET used == {i \in 1 .. S.nf : S.fl[i - 1].status # NOFRIEND}
    IN  IF used = {} THEN 0 ELSE CHOOSE i \in used : \A j \in used : j <= i

\* m_delfriend that does not clear the friend's slot
m_delfriend_slot_kept(S, E, friendnumber) ==
    IF friend_not_valid(S, friendnumber) THEN [S |-> S, ret |-> -1]
    ELSE LET c == conn_of(S, friendnumber, 0)
             S1 == [S EXCEPT !.cbs = Append(@, <<"connection_status_internal", friendnumber, 0>>)]
             S2 == clear_receipts(S1, friendnumber)
             S3 == IF c \in ConnIds /\ S2.co[c].alive THEN [S2 EXCEPT !.co[c].cb = NoCb] ELSE S2
             S4 == IF toxconn_is_connected(S3, c) THEN send_offline_packet(S3, E, c).S ELSE S3
             S5 == kill_tox_conn(S4, c)
             S6 == S5
         IN  [S |-> [S6 EXCEPT !.nf = LastUsed(S6)], ret |-> 0]

\* only the connection of device 0 is unregistered and killed; the slot is
\* zeroed whole, and numfriends shrinks to one past the last slot in use
\* m_delfriend that fills the freed slot with the last friend of the list
m_delfriend_compacting(S, E, friendnumber) ==
    IF friend_not_valid(S, friendnumber) THEN [S |-> S, ret |-> -1]
    ELSE LET c == conn_of(S, friendnumber, 0)
             S1 == [S EXCEPT !.cbs = Append(@, <<"connection_status_internal", friendnumber, 0>>)]
             S2 == clear_receipts(S1, friendnumber)
             S3 == IF c \in ConnIds /\ S2.co[c].alive THEN [S2 EXCEPT !.co[c].cb = NoCb] ELSE S2
             S4 == IF toxconn_is_connected(S3, c) THEN send_offline_packet(S3, E, c).S ELSE S3
             S5 == kill_tox_conn(S4, c)
             S6 == IF friendnumber < S5.nf - 1
                   THEN [S5 EXCEPT !.fl[friendnumber] = S5.fl[S5.nf - 1],
                                   !.fl[S5.nf - 1] = ZeroFriend]
                   ELSE [S5 EXCEPT !.fl[friendnumber] = ZeroFriend]
         IN  [S |-> [S6 EXCEPT !.nf = LastUsed(S6)], ret |-> 0]

m_delfriend(S, E, friendnumber) ==
    IF friend_not_valid(S, friendnumber) THEN [S |-> S, ret |-> -1]
    ELSE LET c == conn_of(S, friendnumber, 0)
             S1 == [S EXCEPT !.cbs = Append(@, <<"connection_status_internal", friendnumber, 0>>)]
             S2 == clear_receipts(S1, friendnumber)
             S3 == IF c \in ConnIds /\ S2.co[c].alive THEN [S2 EXCEPT !.co[c].cb = NoCb] ELSE S2
             S4 == IF toxconn_is_connected(S3, c) THEN send_offline_packet(S3, E, c).S ELSE S3
             S5 == kill_tox_conn(S4, c)
             S6 == [S5 EXCEPT !.fl[friendnumber] = ZeroFriend]
         IN  [S |-> [S6 EXCEPT !.nf = LastUsed(S6)], ret |-> 0]

\* ------------------------------------------------------- file transfers
BitSet(x, bit) == (x \div bit) % 2 = 1

\* new_filesender with the requested bytes of the slot's last transfer kept
new_filesender_requested_kept(S, E, friendnumber, filesize, filename_length) ==
    LET free == {i \in PipeIdx : S.fl[friendnumber].file_sending[i].status = FILESTATUS_NONE}
    IN  IF friend_not_valid(S, friendnumber) THEN [S |-> S, ret |-> -1]
        ELSE IF filename_length > 255 THEN [S |-> S, ret |-> -2]
        ELSE IF free = {} THEN [S |-> S, ret |-> -3]
        ELSE LET i == CHOOSE x \in free : \A y \in free : x <= y
                 w == write_cryptpacket_id(S, E, friendnumber,
                          <<"FILE_SENDREQUEST", i, filesize>>, 45 + filename_length)
             IN  IF w.ret = 0 THEN [S |-> w.S, ret |-> -4]
                 ELSE [S |-> [w.S EXCEPT
                                !.fl[friendnumber].file_sending[i] =
                                    [@ EXCEPT !.status = FILESTATUS_NOT_ACCEPTED,
                                              !.size = filesize,
                                              !.transferred = 0,
                                              !.slots_allocated = 0,
                                              !.paused = FILE_PAUSE_NOT],
                                !.fl[friendnumber].num_sending_files = @ + 1],
                       ret |-> i]

new_filesender(S, E, friendnumber, filesize, filename_length) ==
    LET free == {i \in PipeIdx : S.fl[friendnumber].file_sending[i].status = FILESTATUS_NONE}
    IN  IF friend_not_valid(S, friendnumber) THEN [S |-> S, ret |-> -1]
        ELSE IF filename_length > 255 THEN [S |-> S, ret |-> -2]
        ELSE IF free = {} THEN [S |-> S, ret |-> -3]
        ELSE LET i == CHOOSE x \in free : \A y \in free : x <= y
                 w == write_cryptpacket_id(S, E, friendnumber,
                          <<"FILE_SENDREQUEST", i, filesize>>, 45 + filename_length)
             IN  IF w.ret = 0 THEN [S |-> w.S, ret |-> -4]
                 ELSE [S |-> [w.S EXCEPT
                                !.fl[friendnumber].file_sending[i] =
                                    [@ EXCEPT !.status = FILESTATUS_NOT_ACCEPTED,
                                              !.size = filesize,
                                              !.transferred = 0,
                                              !.requested = 0,
                                              !.slots_allocated = 0,
                                              !.paused = FILE_PAUSE_NOT],
                                !.fl[friendnumber].num_sending_files = @ + 1],
                       ret |-> i]

send_file_control_packet(S, E, friendnumber, send_receive, filenumber, control_type, data, data_length) ==
    IF 1 + 3 + data_length > MAX_CRYPTO_DATA_SIZE THEN [S |-> S, ret |-> -1]
    ELSE write_cryptpacket_id(S, E, friendnumber,
             <<"FILE_CONTROL", send_receive, filenumber, control_type, data>>, 3 + data_length)

\* the slot a public file number names: receiving slots are (index + 1) << 16
send_receive_of(filenumber) == IF filenumber >= 65536 THEN 1 ELSE 0

temp_filenum_of(filenumber) ==
    IF filenumber >= 65536 THEN (filenumber \div 65536) - 1 ELSE filenumber

ft_of(S, friendnumber, send_receive, file_number) ==
    IF send_receive = 1
    THEN S.fl[friendnumber].file_receiving[file_number]
    ELSE S.fl[friendnumber].file_sending[file_number]

ft_set(S, friendnumber, send_receive, file_number, ft) ==
    IF send_receive = 1
    THEN [S EXCEPT !.fl[friendnumber].file_receiving[file_number] = ft]
    ELSE [S EXCEPT !.fl[friendnumber].file_sending[file_number] = ft]

\* file_control with an Accept that clears the peer's pause along with ours
file_control_resume_clears_all(S, E, friendnumber, filenumber, control) ==
    LET send_receive == send_receive_of(filenumber)
        file_number == temp_filenum_of(filenumber)
    IN  IF friend_not_valid(S, friendnumber) THEN [S |-> S, ret |-> -1]
        ELSE IF S.fl[friendnumber].status # FRIEND_ONLINE THEN [S |-> S, ret |-> -2]
        ELSE IF file_number >= MAX_CONCURRENT_FILE_PIPES THEN [S |-> S, ret |-> -3]
        ELSE
        LET ft == ft_of(S, friendnumber, send_receive, file_number)
        IN  IF ft.status = FILESTATUS_NONE THEN [S |-> S, ret |-> -3]
            ELSE IF control > FILECONTROL_KILL THEN [S |-> S, ret |-> -4]
            ELSE IF control = FILECONTROL_PAUSE
                    /\ (BitSet(ft.paused, FILE_PAUSE_US) \/ ft.status # FILESTATUS_TRANSFERRING)
            THEN [S |-> S, ret |-> -5]
            ELSE IF control = FILECONTROL_ACCEPT /\ ft.status = FILESTATUS_TRANSFERRING
                    /\ ~BitSet(ft.paused, FILE_PAUSE_US)
            THEN [S |-> S, ret |-> IF BitSet(ft.paused, FILE_PAUSE_OTHER) THEN -6 ELSE -7]
            ELSE IF control = FILECONTROL_ACCEPT /\ ft.status # FILESTATUS_TRANSFERRING
                    /\ ft.status # FILESTATUS_NOT_ACCEPTED
            THEN [S |-> S, ret |-> -7]
            ELSE IF control = FILECONTROL_ACCEPT /\ ft.status # FILESTATUS_TRANSFERRING
                    /\ send_receive = 0
            THEN [S |-> S, ret |-> -6]
            ELSE
            LET w == send_file_control_packet(S, E, friendnumber, send_receive, file_number,
                                              control, 0, 0)
            IN  IF w.ret = 0 THEN [S |-> w.S, ret |-> -8]
                ELSE IF control = FILECONTROL_KILL
                THEN [S |-> LET S1 == ft_set(w.S, friendnumber, send_receive, file_number,
                                             [ft EXCEPT !.status = FILESTATUS_NONE])
                            IN  IF send_receive = 0
                                THEN [S1 EXCEPT !.fl[friendnumber].num_sending_files = @ - 1]
                                ELSE S1,
                      ret |-> 0]
                ELSE IF control = FILECONTROL_PAUSE
                THEN [S |-> ft_set(w.S, friendnumber, send_receive, file_number,
                                   [ft EXCEPT !.paused = IF BitSet(@, FILE_PAUSE_US)
                                                         THEN @ ELSE @ + FILE_PAUSE_US]),
                      ret |-> 0]
                ELSE [S |-> ft_set(w.S, friendnumber, send_receive, file_number,
                                   [ft EXCEPT !.status = FILESTATUS_TRANSFERRING,
                                              !.paused = FILE_PAUSE_NOT]),
                      ret |-> 0]

\* file_control with an Accept that leaves the status of the transfer alone
file_control_accept_keeps_status(S, E, friendnumber, filenumber, control) ==
    LET send_receive == send_receive_of(filenumber)
        file_number == temp_filenum_of(filenumber)
    IN  IF friend_not_valid(S, friendnumber) THEN [S |-> S, ret |-> -1]
        ELSE IF S.fl[friendnumber].status # FRIEND_ONLINE THEN [S |-> S, ret |-> -2]
        ELSE IF file_number >= MAX_CONCURRENT_FILE_PIPES THEN [S |-> S, ret |-> -3]
        ELSE
        LET ft == ft_of(S, friendnumber, send_receive, file_number)
        IN  IF ft.status = FILESTATUS_NONE THEN [S |-> S, ret |-> -3]
            ELSE IF control > FILECONTROL_KILL THEN [S |-> S, ret |-> -4]
            ELSE IF control = FILECONTROL_PAUSE
                    /\ (BitSet(ft.paused, FILE_PAUSE_US) \/ ft.status # FILESTATUS_TRANSFERRING)
            THEN [S |-> S, ret |-> -5]
            ELSE IF control = FILECONTROL_ACCEPT /\ ft.status = FILESTATUS_TRANSFERRING
                    /\ ~BitSet(ft.paused, FILE_PAUSE_US)
            THEN [S |-> S, ret |-> IF BitSet(ft.paused, FILE_PAUSE_OTHER) THEN -6 ELSE -7]
            ELSE IF control = FILECONTROL_ACCEPT /\ ft.status # FILESTATUS_TRANSFERRING
                    /\ ft.status # FILESTATUS_NOT_ACCEPTED
            THEN [S |-> S, ret |-> -7]
            ELSE IF control = FILECONTROL_ACCEPT /\ ft.status # FILESTATUS_TRANSFERRING
                    /\ send_receive = 0
            THEN [S |-> S, ret |-> -6]
            ELSE
            LET w == send_file_control_packet(S, E, friendnumber, send_receive, file_number,
                                              control, 0, 0)
            IN  IF w.ret = 0 THEN [S |-> w.S, ret |-> -8]
                ELSE IF control = FILECONTROL_KILL
                THEN [S |-> LET S1 == ft_set(w.S, friendnumber, send_receive, file_number,
                                             [ft EXCEPT !.status = FILESTATUS_NONE])
                            IN  IF send_receive = 0
                                THEN [S1 EXCEPT !.fl[friendnumber].num_sending_files = @ - 1]
                                ELSE S1,
                      ret |-> 0]
                ELSE IF control = FILECONTROL_PAUSE
                THEN [S |-> ft_set(w.S, friendnumber, send_receive, file_number,
                                   [ft EXCEPT !.paused = IF BitSet(@, FILE_PAUSE_US)
                                                         THEN @ ELSE @ + FILE_PAUSE_US]),
                      ret |-> 0]
                ELSE [S |-> ft_set(w.S, friendnumber, send_receive, file_number,
                                   [ft EXCEPT !.paused = IF BitSet(@, FILE_PAUSE_US)
                                              THEN @ - FILE_PAUSE_US ELSE @]),
                      ret |-> 0]

file_control(S, E, friendnumber, filenumber, control) ==
    LET send_receive == send_receive_of(filenumber)
        file_number == temp_filenum_of(filenumber)
    IN  IF friend_not_valid(S, friendnumber) THEN [S |-> S, ret |-> -1]
        ELSE IF S.fl[friendnumber].status # FRIEND_ONLINE THEN [S |-> S, ret |-> -2]
        ELSE IF file_number >= MAX_CONCURRENT_FILE_PIPES THEN [S |-> S, ret |-> -3]
        ELSE
        LET ft == ft_of(S, friendnumber, send_receive, file_number)
        IN  IF ft.status = FILESTATUS_NONE THEN [S |-> S, ret |-> -3]
            ELSE IF control > FILECONTROL_KILL THEN [S |-> S, ret |-> -4]
            ELSE IF control = FILECONTROL_PAUSE
                    /\ (BitSet(ft.paused, FILE_PAUSE_US) \/ ft.status # FILESTATUS_TRANSFERRING)
            THEN [S |-> S, ret |-> -5]
            ELSE IF control = FILECONTROL_ACCEPT /\ ft.status = FILESTATUS_TRANSFERRING
                    /\ ~BitSet(ft.paused, FILE_PAUSE_US)
            THEN [S |-> S, ret |-> IF BitSet(ft.paused, FILE_PAUSE_OTHER) THEN -6 ELSE -7]
            ELSE IF control = FILECONTROL_ACCEPT /\ ft.status # FILESTATUS_TRANSFERRING
                    /\ ft.status # FILESTATUS_NOT_ACCEPTED
            THEN [S |-> S, ret |-> -7]
            ELSE IF control = FILECONTROL_ACCEPT /\ ft.status # FILESTATUS_TRANSFERRING
                    /\ send_receive = 0
            THEN [S |-> S, ret |-> -6]
            ELSE
            LET w == send_file_control_packet(S, E, friendnumber, send_receive, file_number,
                                              control, 0, 0)
            IN  IF w.ret = 0 THEN [S |-> w.S, ret |-> -8]
                ELSE IF control = FILECONTROL_KILL
                THEN [S |-> LET S1 == ft_set(w.S, friendnumber, send_receive, file_number,
                                             [ft EXCEPT !.status = FILESTATUS_NONE])
                            IN  IF send_receive = 0
                                THEN [S1 EXCEPT !.fl[friendnumber].num_sending_files = @ - 1]
                                ELSE S1,
                      ret |-> 0]
                ELSE IF control = FILECONTROL_PAUSE
                THEN [S |-> ft_set(w.S, friendnumber, send_receive, file_number,
                                   [ft EXCEPT !.paused = IF BitSet(@, FILE_PAUSE_US)
                                                         THEN @ ELSE @ + FILE_PAUSE_US]),
                      ret |-> 0]
                ELSE [S |-> ft_set(w.S, friendnumber, send_receive, file_number,
                                   [ft EXCEPT !.status = FILESTATUS_TRANSFERRING,
                                              !.paused = IF BitSet(@, FILE_PAUSE_US)
                                                         THEN @ - FILE_PAUSE_US ELSE @]),
                      ret |-> 0]

\* file_seek with no test of the position against the size
file_seek_any_position(S, E, friendnumber, filenumber, position) ==
    LET file_number == temp_filenum_of(filenumber)
    IN  IF friend_not_valid(S, friendnumber) THEN [S |-> S, ret |-> -1]
        ELSE IF S.fl[friendnumber].status # FRIEND_ONLINE THEN [S |-> S, ret |-> -2]
        ELSE IF send_receive_of(filenumber) = 0 THEN [S |-> S, ret |-> -4]
        ELSE IF file_number >= MAX_CONCURRENT_FILE_PIPES THEN [S |-> S, ret |-> -3]
        ELSE
        LET ft == S.fl[friendnumber].file_receiving[file_number]
        IN  IF ft.status = FILESTATUS_NONE THEN [S |-> S, ret |-> -3]
            ELSE IF ft.status # FILESTATUS_NOT_ACCEPTED THEN [S |-> S, ret |-> -5]
            ELSE LET w == send_file_control_packet(S, E, friendnumber, 1, file_number,
                                                   FILECONTROL_SEEK, position, 8)
                 IN  IF w.ret = 0 THEN [S |-> w.S, ret |-> -8]
                     ELSE [S |-> [w.S EXCEPT
                                    !.fl[friendnumber].file_receiving[file_number].transferred = position],
                           ret |-> 0]

\* file_seek with no test of the state of the transfer
file_seek_any_state(S, E, friendnumber, filenumber, position) ==
    LET file_number == temp_filenum_of(filenumber)
    IN  IF friend_not_valid(S, friendnumber) THEN [S |-> S, ret |-> -1]
        ELSE IF S.fl[friendnumber].status # FRIEND_ONLINE THEN [S |-> S, ret |-> -2]
        ELSE IF send_receive_of(filenumber) = 0 THEN [S |-> S, ret |-> -4]
        ELSE IF file_number >= MAX_CONCURRENT_FILE_PIPES THEN [S |-> S, ret |-> -3]
        ELSE
        LET ft == S.fl[friendnumber].file_receiving[file_number]
        IN  IF ft.status = FILESTATUS_NONE THEN [S |-> S, ret |-> -3]
            ELSE IF position >= ft.size THEN [S |-> S, ret |-> -6]
            ELSE LET w == send_file_control_packet(S, E, friendnumber, 1, file_number,
                                                   FILECONTROL_SEEK, position, 8)
                 IN  IF w.ret = 0 THEN [S |-> w.S, ret |-> -8]
                     ELSE [S |-> [w.S EXCEPT
                                    !.fl[friendnumber].file_receiving[file_number].transferred = position],
                           ret |-> 0]

file_seek(S, E, friendnumber, filenumber, position) ==
    LET file_number == temp_filenum_of(filenumber)
    IN  IF friend_not_valid(S, friendnumber) THEN [S |-> S, ret |-> -1]
        ELSE IF S.fl[friendnumber].status # FRIEND_ONLINE THEN [S |-> S, ret |-> -2]
        ELSE IF send_receive_of(filenumber) = 0 THEN [S |-> S, ret |-> -4]
        ELSE IF file_number >= MAX_CONCURRENT_FILE_PIPES THEN [S |-> S, ret |-> -3]
        ELSE
        LET ft == S.fl[friendnumber].file_receiving[file_number]
        IN  IF ft.status = FILESTATUS_NONE THEN [S |-> S, ret |-> -3]
            ELSE IF ft.status # FILESTATUS_NOT_ACCEPTED THEN [S |-> S, ret |-> -5]
            ELSE IF position >= ft.size THEN [S |-> S, ret |-> -6]
            ELSE LET w == send_file_control_packet(S, E, friendnumber, 1, file_number,
                                                   FILECONTROL_SEEK, position, 8)
                 IN  IF w.ret = 0 THEN [S |-> w.S, ret |-> -8]
                     ELSE [S |-> [w.S EXCEPT
                                    !.fl[friendnumber].file_receiving[file_number].transferred = position],
                           ret |-> 0]

send_file_data_packet(S, E, friendnumber, filenumber, length) ==
    IF friend_not_valid(S, friendnumber) THEN [S |-> S, ret |-> -1]
    ELSE write_cryptpacket(S, E, toxconn_crypt_connection_id(S, conn_of(S, friendnumber, 0)),
                           <<"FILE_DATA", filenumber, length>>)

\* file_data with no test of the position
file_data_position_unchecked(S, E, friendnumber, filenumber, position, length) ==
    IF friend_not_valid(S, friendnumber) THEN [S |-> S, ret |-> -1]
    ELSE IF S.fl[friendnumber].status # FRIEND_ONLINE THEN [S |-> S, ret |-> -2]
    ELSE IF filenumber >= MAX_CONCURRENT_FILE_PIPES THEN [S |-> S, ret |-> -3]
    ELSE
    LET ft == S.fl[friendnumber].file_sending[filenumber]
    IN  IF ft.status # FILESTATUS_TRANSFERRING THEN [S |-> S, ret |-> -4]
        ELSE IF length > MAX_FILE_DATA_SIZE THEN [S |-> S, ret |-> -5]
        ELSE IF u64(ft.size - ft.transferred) < length THEN [S |-> S, ret |-> -5]
        ELSE IF ft.size # UINT64_MAX /\ length # MAX_FILE_DATA_SIZE
                /\ u64(ft.transferred + length) # ft.size
        THEN [S |-> S, ret |-> -5]
        ELSE IF crypto_num_free_sendqueue_slots(E,
                    toxconn_crypt_connection_id(S, conn_of(S, friendnumber, 0))) < MIN_SLOTS_FREE
        THEN [S |-> S, ret |-> -6]
        ELSE
        LET w == send_file_data_packet(S, E, friendnumber, filenumber, length)
            transferred == u64(ft.transferred + length)
            finished == length # MAX_FILE_DATA_SIZE \/ ft.size = transferred
        IN  IF w.ret = -1 THEN [S |-> w.S, ret |-> -6]
            ELSE [S |-> [w.S EXCEPT !.fl[friendnumber].file_sending[filenumber] =
                            [ft EXCEPT !.transferred = transferred,
                                       !.slots_allocated = IF @ # 0 THEN @ - 1 ELSE @,
                                       !.status = IF finished THEN FILESTATUS_FINISHED ELSE @,
                                       !.last_packet_number = IF finished THEN w.ret ELSE @]],
                  ret |-> 0]

file_data(S, E, friendnumber, filenumber, position, length) ==
    IF friend_not_valid(S, friendnumber) THEN [S |-> S, ret |-> -1]
    ELSE IF S.fl[friendnumber].status # FRIEND_ONLINE THEN [S |-> S, ret |-> -2]
    ELSE IF filenumber >= MAX_CONCURRENT_FILE_PIPES THEN [S |-> S, ret |-> -3]
    ELSE
    LET ft == S.fl[friendnumber].file_sending[filenumber]
    IN  IF ft.status # FILESTATUS_TRANSFERRING THEN [S |-> S, ret |-> -4]
        ELSE IF length > MAX_FILE_DATA_SIZE THEN [S |-> S, ret |-> -5]
        ELSE IF u64(ft.size - ft.transferred) < length THEN [S |-> S, ret |-> -5]
        ELSE IF ft.size # UINT64_MAX /\ length # MAX_FILE_DATA_SIZE
                /\ u64(ft.transferred + length) # ft.size
        THEN [S |-> S, ret |-> -5]
        ELSE IF position # ft.transferred \/ (ft.requested <= position /\ ft.size # 0)
        THEN [S |-> S, ret |-> -7]
        ELSE IF crypto_num_free_sendqueue_slots(E,
                    toxconn_crypt_connection_id(S, conn_of(S, friendnumber, 0))) < MIN_SLOTS_FREE
        THEN [S |-> S, ret |-> -6]
        ELSE
        LET w == send_file_data_packet(S, E, friendnumber, filenumber, length)
            transferred == u64(ft.transferred + length)
            finished == length # MAX_FILE_DATA_SIZE \/ ft.size = transferred
        IN  IF w.ret = -1 THEN [S |-> w.S, ret |-> -6]
            ELSE [S |-> [w.S EXCEPT !.fl[friendnumber].file_sending[filenumber] =
                            [ft EXCEPT !.transferred = transferred,
                                       !.slots_allocated = IF @ # 0 THEN @ - 1 ELSE @,
                                       !.status = IF finished THEN FILESTATUS_FINISHED ELSE @,
                                       !.last_packet_number = IF finished THEN w.ret ELSE @]],
                  ret |-> 0]

\* the while loop that goes on while the peer has paused the transfer
RECURSIVE reqchunk_loop_peer_pause_ignored(_, _, _, _, _)
reqchunk_loop_peer_pause_ignored(S, E, friendnumber, i, free_slots0) ==
    LET ft == S.fl[friendnumber].file_sending[i]
    IN  IF ~(ft.status = FILESTATUS_TRANSFERRING /\ ~BitSet(ft.paused, FILE_PAUSE_US))
        THEN [S |-> S, free_slots |-> free_slots0]
        ELSE
        LET free_slots == IF max_speed_reached(E,
                                 toxconn_crypt_connection_id(S, conn_of(S, friendnumber, 0)))
                          THEN 0 ELSE free_slots0
        IN  IF free_slots = 0 THEN [S |-> S, free_slots |-> free_slots]
            ELSE IF ft.size = 0
            THEN [S |-> file_data(S, E, friendnumber, i, 0, 0).S, free_slots |-> free_slots]
            ELSE IF ft.size = ft.requested THEN [S |-> S, free_slots |-> free_slots]
            ELSE
            LET length == IF u64(ft.size - ft.requested) < MAX_FILE_DATA_SIZE
                          THEN u64(ft.size - ft.requested) ELSE MAX_FILE_DATA_SIZE
                position == ft.requested
                S1 == [S EXCEPT !.fl[friendnumber].file_sending[i].slots_allocated = @ + 1,
                                !.fl[friendnumber].file_sending[i].requested = u64(@ + length),
                                !.cbs = Append(@, <<"file_reqchunk", friendnumber, i,
                                                    position, length>>)]
            IN  reqchunk_loop_peer_pause_ignored(S1, E, friendnumber, i, free_slots - 1)

\* the while loop of do_reqchunk_filecb for pipe i; returns [S, free_slots]
RECURSIVE reqchunk_loop(_, _, _, _, _)
reqchunk_loop(S, E, friendnumber, i, free_slots0) ==
    LET ft == S.fl[friendnumber].file_sending[i]
    IN  IF ~(ft.status = FILESTATUS_TRANSFERRING /\ ft.paused = FILE_PAUSE_NOT)
        THEN [S |-> S, free_slots |-> free_slots0]
        ELSE
        LET free_slots == IF max_speed_reached(E,
                                 toxconn_crypt_connection_id(S, conn_of(S, friendnumber, 0)))
                          THEN 0 ELSE free_slots0
        IN  IF free_slots = 0 THEN [S |-> S, free_slots |-> free_slots]
            ELSE IF ft.size = 0
            THEN [S |-> file_data(S, E, friendnumber, i, 0, 0).S, free_slots |-> free_slots]
            ELSE IF ft.size = ft.requested THEN [S |-> S, free_slots |-> free_slots]
            ELSE
            LET length == IF u64(ft.size - ft.requested) < MAX_FILE_DATA_SIZE
                          THEN u64(ft.size - ft.requested) ELSE MAX_FILE_DATA_SIZE
                position == ft.requested
                S1 == [S EXCEPT !.fl[friendnumber].file_sending[i].slots_allocated = @ + 1,
                                !.fl[friendnumber].file_sending[i].requested = u64(@ + length),
                                !.cbs = Append(@, <<"file_reqchunk", friendnumber, i,
                                                    position, length>>)]
            IN  reqchunk_loop(S1, E, friendnumber, i, free_slots - 1)

\* the for loop with a Finished transfer reaped without polling its last packet
RECURSIVE reqchunk_pipes_unpolled(_, _, _, _, _, _)
reqchunk_pipes_unpolled(S, E, friendnumber, i, free_slots0, num0) ==
    IF i >= MAX_CONCURRENT_FILE_PIPES THEN S
    ELSE
    LET ft == S.fl[friendnumber].file_sending[i]
        active == ft.status # FILESTATUS_NONE
        num == IF active THEN num0 - 1 ELSE num0
        done == active /\ ft.status = FILESTATUS_FINISHED
        S1 == IF done
              THEN [S EXCEPT !.cbs = Append(@, <<"file_reqchunk", friendnumber, i,
                                                 ft.transferred, 0>>),
                             !.fl[friendnumber].file_sending[i].status = FILESTATUS_NONE,
                             !.fl[friendnumber].num_sending_files = @ - 1]
              ELSE S
        free_slots == IF ~active THEN free_slots0
                      ELSE IF ft.slots_allocated > free_slots0 THEN 0
                      ELSE free_slots0 - ft.slots_allocated
        r == reqchunk_loop(S1, E, friendnumber, i, free_slots)
    IN  IF num = 0 THEN r.S
        ELSE reqchunk_pipes_unpolled(r.S, E, friendnumber, i + 1, r.free_slots, num)

\* the for loop reaping a finished transfer without counting it down
RECURSIVE reqchunk_pipes_count_kept(_, _, _, _, _, _)
reqchunk_pipes_count_kept(S, E, friendnumber, i, free_slots0, num0) ==
    IF i >= MAX_CONCURRENT_FILE_PIPES THEN S
    ELSE
    LET ft == S.fl[friendnumber].file_sending[i]
        active == ft.status # FILESTATUS_NONE
        num == IF active THEN num0 - 1 ELSE num0
        done == /\ active
                /\ ft.status = FILESTATUS_FINISHED
                /\ friend_received_packet(S, friendnumber, ft.last_packet_number) = 0
        S1 == IF done
              THEN [S EXCEPT !.cbs = Append(@, <<"file_reqchunk", friendnumber, i,
                                                 ft.transferred, 0>>),
                             !.fl[friendnumber].file_sending[i].status = FILESTATUS_NONE]
              ELSE S
        free_slots == IF ~active THEN free_slots0
                      ELSE IF ft.slots_allocated > free_slots0 THEN 0
                      ELSE free_slots0 - ft.slots_allocated
        r == reqchunk_loop(S1, E, friendnumber, i, free_slots)
    IN  IF num = 0 THEN r.S
        ELSE reqchunk_pipes_count_kept(r.S, E, friendnumber, i + 1, r.free_slots, num)

\* the for loop of do_reqchunk_filecb from pipe i on
RECURSIVE reqchunk_pipes(_, _, _, _, _, _)
reqchunk_pipes(S, E, friendnumber, i, free_slots0, num0) ==
    IF i >= MAX_CONCURRENT_FILE_PIPES THEN S
    ELSE
    LET ft == S.fl[friendnumber].file_sending[i]
        active == ft.status # FILESTATUS_NONE
        num == IF active THEN num0 - 1 ELSE num0
        done == /\ active
                /\ ft.status = FILESTATUS_FINISHED
                /\ friend_received_packet(S, friendnumber, ft.last_packet_number) = 0
        S1 == IF done
              THEN [S EXCEPT !.cbs = Append(@, <<"file_reqchunk", friendnumber, i,
                                                 ft.transferred, 0>>),
                             !.fl[friendnumber].file_sending[i].status = FILESTATUS_NONE,
                             !.fl[friendnumber].num_sending_files = @ - 1]
              ELSE S
        free_slots == IF ~active THEN free_slots0
                      ELSE IF ft.slots_allocated > free_slots0 THEN 0
                      ELSE free_slots0 - ft.slots_allocated
        r == reqchunk_loop(S1, E, friendnumber, i, free_slots)
    IN  IF num = 0 THEN r.S
        ELSE reqchunk_pipes(r.S, E, friendnumber, i + 1, r.free_slots, num)

do_reqchunk_filecb(S, E, friendnumber) ==
    IF S.fl[friendnumber].num_sending_files = 0 THEN S
    ELSE LET fs == crypto_num_free_sendqueue_slots(E,
                       toxconn_crypt_connection_id(S, conn_of(S, friendnumber, 0)))
             free_slots == IF fs < MIN_SLOTS_FREE THEN 0 ELSE fs - MIN_SLOTS_FREE
         IN  reqchunk_pipes(S, E, friendnumber, 0, free_slots, S.fl[friendnumber].num_sending_files)

\* handle_filecontrol with a KILL that leaves num_sending_files alone
handle_filecontrol_kill_keeps_count(S, E, friendnumber, receive_send, filenumber, control_type, data, length) ==
    IF receive_send > 1 THEN [S |-> S, ret |-> -1]
    ELSE IF control_type > FILECONTROL_SEEK THEN [S |-> S, ret |-> -1]
    ELSE
    LET real_filenumber == IF receive_send = 0 THEN (filenumber + 1) * 65536 ELSE filenumber
        \* receive_send 0: the peer sends, so the slot is one of our receiving ones
        sr == IF receive_send = 0 THEN 1 ELSE 0
        ft == ft_of(S, friendnumber, sr, filenumber)
        cb(X) == [X EXCEPT !.cbs = Append(@, <<"file_filecontrol", friendnumber,
                                               real_filenumber, control_type>>)]
    IN  IF ft.status = FILESTATUS_NONE
        THEN [S |-> send_file_control_packet(S, E, friendnumber, 1 - receive_send, filenumber,
                                             FILECONTROL_KILL, 0, 0).S,
              ret |-> -1]
        ELSE IF control_type = FILECONTROL_ACCEPT
        THEN IF receive_send = 1 /\ ft.status = FILESTATUS_NOT_ACCEPTED
             THEN [S |-> cb(ft_set(S, friendnumber, sr, filenumber,
                                   [ft EXCEPT !.status = FILESTATUS_TRANSFERRING])),
                   ret |-> 0]
             ELSE IF BitSet(ft.paused, FILE_PAUSE_OTHER)
             THEN [S |-> cb(ft_set(S, friendnumber, sr, filenumber,
                                   [ft EXCEPT !.paused = @ - FILE_PAUSE_OTHER])),
                   ret |-> 0]
             ELSE [S |-> S, ret |-> -1]
        ELSE IF control_type = FILECONTROL_PAUSE
        THEN IF BitSet(ft.paused, FILE_PAUSE_OTHER) \/ ft.status # FILESTATUS_TRANSFERRING
             THEN [S |-> S, ret |-> -1]
             ELSE [S |-> cb(ft_set(S, friendnumber, sr, filenumber,
                                   [ft EXCEPT !.paused = @ + FILE_PAUSE_OTHER])),
                   ret |-> 0]
        ELSE IF control_type = FILECONTROL_KILL
        THEN LET S1 == ft_set(cb(S), friendnumber, sr, filenumber,
                              [ft EXCEPT !.status = FILESTATUS_NONE])
             IN  [S |-> S1, ret |-> 0]
        ELSE \* FILECONTROL_SEEK
             IF length # 8 THEN [S |-> S, ret |-> -1]
             ELSE IF ft.status # FILESTATUS_NOT_ACCEPTED \/ receive_send = 0
             THEN [S |-> S, ret |-> -1]
             ELSE IF data >= ft.size THEN [S |-> S, ret |-> -1]
             ELSE [S |-> ft_set(S, friendnumber, sr, filenumber,
                                [ft EXCEPT !.transferred = data, !.requested = data]),
                   ret |-> 0]

\* handle_filecontrol with a SEEK that moves transferred and leaves requested
handle_filecontrol_seek_transferred_only(S, E, friendnumber, receive_send, filenumber, control_type, data, length) ==
    IF receive_send > 1 THEN [S |-> S, ret |-> -1]
    ELSE IF control_type > FILECONTROL_SEEK THEN [S |-> S, ret |-> -1]
    ELSE
    LET real_filenumber == IF receive_send = 0 THEN (filenumber + 1) * 65536 ELSE filenumber
        \* receive_send 0: the peer sends, so the slot is one of our receiving ones
        sr == IF receive_send = 0 THEN 1 ELSE 0
        ft == ft_of(S, friendnumber, sr, filenumber)
        cb(X) == [X EXCEPT !.cbs = Append(@, <<"file_filecontrol", friendnumber,
                                               real_filenumber, control_type>>)]
    IN  IF ft.status = FILESTATUS_NONE
        THEN [S |-> send_file_control_packet(S, E, friendnumber, 1 - receive_send, filenumber,
                                             FILECONTROL_KILL, 0, 0).S,
              ret |-> -1]
        ELSE IF control_type = FILECONTROL_ACCEPT
        THEN IF receive_send = 1 /\ ft.status = FILESTATUS_NOT_ACCEPTED
             THEN [S |-> cb(ft_set(S, friendnumber, sr, filenumber,
                                   [ft EXCEPT !.status = FILESTATUS_TRANSFERRING])),
                   ret |-> 0]
             ELSE IF BitSet(ft.paused, FILE_PAUSE_OTHER)
             THEN [S |-> cb(ft_set(S, friendnumber, sr, filenumber,
                                   [ft EXCEPT !.paused = @ - FILE_PAUSE_OTHER])),
                   ret |-> 0]
             ELSE [S |-> S, ret |-> -1]
        ELSE IF control_type = FILECONTROL_PAUSE
        THEN IF BitSet(ft.paused, FILE_PAUSE_OTHER) \/ ft.status # FILESTATUS_TRANSFERRING
             THEN [S |-> S, ret |-> -1]
             ELSE [S |-> cb(ft_set(S, friendnumber, sr, filenumber,
                                   [ft EXCEPT !.paused = @ + FILE_PAUSE_OTHER])),
                   ret |-> 0]
        ELSE IF control_type = FILECONTROL_KILL
        THEN LET S1 == ft_set(cb(S), friendnumber, sr, filenumber,
                              [ft EXCEPT !.status = FILESTATUS_NONE])
             IN  [S |-> IF receive_send = 1
                        THEN [S1 EXCEPT !.fl[friendnumber].num_sending_files = @ - 1]
                        ELSE S1,
                  ret |-> 0]
        ELSE \* FILECONTROL_SEEK
             IF length # 8 THEN [S |-> S, ret |-> -1]
             ELSE IF ft.status # FILESTATUS_NOT_ACCEPTED \/ receive_send = 0
             THEN [S |-> S, ret |-> -1]
             ELSE IF data >= ft.size THEN [S |-> S, ret |-> -1]
             ELSE [S |-> ft_set(S, friendnumber, sr, filenumber,
                                [ft EXCEPT !.transferred = data]),
                   ret |-> 0]

\* an inbound file control; data is the seek position, length the payload size
handle_filecontrol(S, E, friendnumber, receive_send, filenumber, control_type, data, length) ==
    IF receive_send > 1 THEN [S |-> S, ret |-> -1]
    ELSE IF control_type > FILECONTROL_SEEK THEN [S |-> S, ret |-> -1]
    ELSE
    LET real_filenumber == IF receive_send = 0 THEN (filenumber + 1) * 65536 ELSE filenumber
        \* receive_send 0: the peer sends, so the slot is one of our receiving ones
        sr == IF receive_send = 0 THEN 1 ELSE 0
        ft == ft_of(S, friendnumber, sr, filenumber)
        cb(X) == [X EXCEPT !.cbs = Append(@, <<"file_filecontrol", friendnumber,
                                               real_filenumber, control_type>>)]
    IN  IF ft.status = FILESTATUS_NONE
        THEN [S |-> send_file_control_packet(S, E, friendnumber, 1 - receive_send, filenumber,
                                             FILECONTROL_KILL, 0, 0).S,
              ret |-> -1]
        ELSE IF control_type = FILECONTROL_ACCEPT
        THEN IF receive_send = 1 /\ ft.status = FILESTATUS_NOT_ACCEPTED
             THEN [S |-> cb(ft_set(S, friendnumber, sr, filenumber,
                                   [ft EXCEPT !.status = FILESTATUS_TRANSFERRING])),
                   ret |-> 0]
             ELSE IF BitSet(ft.paused, FILE_PAUSE_OTHER)
             THEN [S |-> cb(ft_set(S, friendnumber, sr, filenumber,
                                   [ft EXCEPT !.paused = @ - FILE_PAUSE_OTHER])),
                   ret |-> 0]
             ELSE [S |-> S, ret |-> -1]
        ELSE IF control_type = FILECONTROL_PAUSE
        THEN IF BitSet(ft.paused, FILE_PAUSE_OTHER) \/ ft.status # FILESTATUS_TRANSFERRING
             THEN [S |-> S, ret |-> -1]
             ELSE [S |-> cb(ft_set(S, friendnumber, sr, filenumber,
                                   [ft EXCEPT !.paused = @ + FILE_PAUSE_OTHER])),
                   ret |-> 0]
        ELSE IF control_type = FILECONTROL_KILL
        THEN LET S1 == ft_set(cb(S), friendnumber, sr, filenumber,
                              [ft EXCEPT !.status = FILESTATUS_NONE])
             IN  [S |-> IF receive_send = 1
                        THEN [S1 EXCEPT !.fl[friendnumber].num_sending_files = @ - 1]
                        ELSE S1,
                  ret |-> 0]
        ELSE \* FILECONTROL_SEEK
             IF length # 8 THEN [S |-> S, ret |-> -1]
             ELSE IF ft.status # FILESTATUS_NOT_ACCEPTED \/ receive_send = 0
             THEN [S |-> S, ret |-> -1]
             ELSE IF data >= ft.size THEN [S |-> S, ret |-> -1]
             ELSE [S |-> ft_set(S, friendnumber, sr, filenumber,
                                [ft EXCEPT !.transferred = data, !.requested = data]),
                   ret |-> 0]

\* ------------------------------------------------------- inbound packets
\* an inbound packet: id names the packet id byte, data_length the bytes after
\* it; the other fields are the decoded payload of the file packets
Packet(id, data_length) ==
    [id |-> id, data_length |-> data_length, filenumber |-> 0, send_receive |-> 0,
     control_type |-> 0, position |-> 0, filesize |-> 0, data |-> 0]

\* an inbound profile packet: data names the bytes after the id (for USERSTATUS
\* and TYPING the one byte itself)
ProfilePacket(id, data_length, data) == [Packet(id, data_length) EXCEPT !.data = data]

setfriendname(S, friendnumber, name, length) ==
    IF friend_not_valid(S, friendnumber) THEN S
    ELSE IF length > MAX_NAME_LENGTH \/ length = 0 THEN S
    ELSE [S EXCEPT !.fl[friendnumber].name_length = length,
                   !.fl[friendnumber].name = name]

\* memcpy of length bytes: nothing is copied when length is 0
set_friend_statusmessage(S, friendnumber, status, length) ==
    IF friend_not_valid(S, friendnumber) THEN S
    ELSE IF length > MAX_STATUSMESSAGE_LENGTH THEN S
    ELSE [S EXCEPT !.fl[friendnumber].statusmessage = IF length # 0 THEN status ELSE @,
                   !.fl[friendnumber].statusmessage_length = length]

set_friend_userstatus(S, friendnumber, status) ==
    [S EXCEPT !.fl[friendnumber].userstatus = status]

set_friend_typing(S, friendnumber, is_typing) ==
    [S EXCEPT !.fl[friendnumber].is_typing = is_typing]

\* handle_file_sendrequest without the test that the slot is free
handle_file_sendrequest_overwrites(S, friend_num, pkt) ==
    LET head_length == 1 + 4 + 8 + 32
        filename_length == pkt.data_length - head_length
        ft == S.fl[friend_num].file_receiving[pkt.filenumber]
    IN  IF pkt.data_length < head_length THEN S
        ELSE IF pkt.filenumber >= MAX_CONCURRENT_FILE_PIPES THEN S
        ELSE IF filename_length > 255 THEN S
        ELSE [S EXCEPT !.fl[friend_num].file_receiving[pkt.filenumber] =
                            [ft EXCEPT !.status = FILESTATUS_NOT_ACCEPTED,
                                       !.size = pkt.filesize,
                                       !.transferred = 0,
                                       !.paused = FILE_PAUSE_NOT],
                       !.cbs = Append(@, <<"file_sendrequest", friend_num,
                                           (pkt.filenumber + 1) * 65536, pkt.filesize>>)]

handle_file_sendrequest(S, friend_num, pkt) ==
    LET head_length == 1 + 4 + 8 + 32
        filename_length == pkt.data_length - head_length
        ft == S.fl[friend_num].file_receiving[pkt.filenumber]
    IN  IF pkt.data_length < head_length THEN S
        ELSE IF pkt.filenumber >= MAX_CONCURRENT_FILE_PIPES THEN S
        ELSE IF filename_length > 255 THEN S
        ELSE IF ft.status # FILESTATUS_NONE THEN S
        ELSE [S EXCEPT !.fl[friend_num].file_receiving[pkt.filenumber] =
                            [ft EXCEPT !.status = FILESTATUS_NOT_ACCEPTED,
                                       !.size = pkt.filesize,
                                       !.transferred = 0,
                                       !.paused = FILE_PAUSE_NOT],
                       !.cbs = Append(@, <<"file_sendrequest", friend_num,
                                           (pkt.filenumber + 1) * 65536, pkt.filesize>>)]

\* handle_file_data without the release of the slot on an empty chunk
handle_file_data_empty_kept(S, friend_num, pkt) ==
    IF pkt.data_length < 1 THEN S
    ELSE IF pkt.filenumber >= MAX_CONCURRENT_FILE_PIPES THEN S
    ELSE
    LET ft == S.fl[friend_num].file_receiving[pkt.filenumber]
        real_filenumber == (pkt.filenumber + 1) * 65536
        len0 == pkt.data_length - 1
        file_data_length == IF u64(ft.transferred + len0) > ft.size
                            THEN u64(ft.size - ft.transferred) % 65536
                            ELSE len0
        transferred == u64(ft.transferred + file_data_length)
        ends == file_data_length # 0
                /\ (transferred >= ft.size \/ file_data_length # MAX_FILE_DATA_SIZE)
        S1 == [S EXCEPT !.cbs = Append(@, <<"file_filedata", friend_num, real_filenumber,
                                            ft.transferred, file_data_length>>),
                        !.fl[friend_num].file_receiving[pkt.filenumber].transferred = transferred]
        S2 == IF ends
              THEN [S1 EXCEPT !.cbs = Append(@, <<"file_filedata", friend_num, real_filenumber,
                                                  transferred, 0>>)]
              ELSE S1
    IN  IF ft.status # FILESTATUS_TRANSFERRING THEN S
        ELSE IF ends
        THEN [S2 EXCEPT !.fl[friend_num].file_receiving[pkt.filenumber].status = FILESTATUS_NONE]
        ELSE S2

\* handle_packet's FILE_DATA case handing over all the peer sent, past the size
handle_file_data_untruncated(S, friend_num, pkt) ==
    IF pkt.data_length < 1 THEN S
    ELSE IF pkt.filenumber >= MAX_CONCURRENT_FILE_PIPES THEN S
    ELSE
    LET ft == S.fl[friend_num].file_receiving[pkt.filenumber]
        real_filenumber == (pkt.filenumber + 1) * 65536
        file_data_length == pkt.data_length - 1
        transferred == u64(ft.transferred + file_data_length)
        ends == file_data_length # 0
                /\ (transferred >= ft.size \/ file_data_length # MAX_FILE_DATA_SIZE)
        S1 == [S EXCEPT !.cbs = Append(@, <<"file_filedata", friend_num, real_filenumber,
                                            ft.transferred, file_data_length>>),
                        !.fl[friend_num].file_receiving[pkt.filenumber].transferred = transferred]
        S2 == IF ends
              THEN [S1 EXCEPT !.cbs = Append(@, <<"file_filedata", friend_num, real_filenumber,
                                                  transferred, 0>>)]
              ELSE S1
    IN  IF ft.status # FILESTATUS_TRANSFERRING THEN S
        ELSE IF ends \/ file_data_length = 0
        THEN [S2 EXCEPT !.fl[friend_num].file_receiving[pkt.filenumber].status = FILESTATUS_NONE]
        ELSE S2

handle_file_data(S, friend_num, pkt) ==
    IF pkt.data_length < 1 THEN S
    ELSE IF pkt.filenumber >= MAX_CONCURRENT_FILE_PIPES THEN S
    ELSE
    LET ft == S.fl[friend_num].file_receiving[pkt.filenumber]
        real_filenumber == (pkt.filenumber + 1) * 65536
        len0 == pkt.data_length - 1
        file_data_length == IF u64(ft.transferred + len0) > ft.size
                            THEN u64(ft.size - ft.transferred) % 65536
                            ELSE len0
        transferred == u64(ft.transferred + file_data_length)
        ends == file_data_length # 0
                /\ (transferred >= ft.size \/ file_data_length # MAX_FILE_DATA_SIZE)
        S1 == [S EXCEPT !.cbs = Append(@, <<"file_filedata", friend_num, real_filenumber,
                                            ft.transferred, file_data_length>>),
                        !.fl[friend_num].file_receiving[pkt.filenumber].transferred = transferred]
        S2 == IF ends
              THEN [S1 EXCEPT !.cbs = Append(@, <<"file_filedata", friend_num, real_filenumber,
                                                  transferred, 0>>)]
              ELSE S1
    IN  IF ft.status # FILESTATUS_TRANSFERRING THEN S
        ELSE IF ends \/ file_data_length = 0
        THEN [S2 EXCEPT !.fl[friend_num].file_receiving[pkt.filenumber].status = FILESTATUS_NONE]
        ELSE S2

\* the switch of handle_packet over the packet id, for the messenger S the
\* packet found and the messenger S0 after the promotion of its sender
handle_packet_switch(S, S0, E, friend_num, device_id, pkt) ==
    IF S.fl[friend_num].status # FRIEND_ONLINE /\ ~(pkt.id = "ONLINE" /\ pkt.data_length = 0)
        THEN [S |-> S, ret |-> -1]
        ELSE IF pkt.id = "ONLINE"
        THEN IF pkt.data_length # 0 THEN [S |-> S0, ret |-> -1]
             ELSE [S |-> send_online_packet(
                             set_device_status(S0, friend_num, device_id, FDEV_ONLINE),
                             E, friend_num, device_id).S,
                   ret |-> 0]
        ELSE IF pkt.id = "OFFLINE"
        THEN IF pkt.data_length # 0 THEN [S |-> S0, ret |-> 0]
             ELSE [S |-> set_device_status(S0, friend_num, device_id, FDEV_CONFIRMED), ret |-> 0]
        ELSE IF pkt.id = "NICKNAME"
        THEN IF pkt.data_length > MAX_NAME_LENGTH THEN [S |-> S0, ret |-> 0]
             ELSE [S |-> [S0 EXCEPT !.cbs = Append(@, <<"friend_namechange", friend_num,
                                                        pkt.data, pkt.data_length>>),
                                    !.fl[friend_num].name = IF pkt.data_length # 0 THEN pkt.data ELSE @,
                                    !.fl[friend_num].name_length = pkt.data_length],
                   ret |-> 0]
        ELSE IF pkt.id = "STATUSMESSAGE"
        THEN IF pkt.data_length > MAX_STATUSMESSAGE_LENGTH THEN [S |-> S0, ret |-> 0]
             ELSE [S |-> set_friend_statusmessage(
                             [S0 EXCEPT !.cbs = Append(@, <<"friend_statusmessagechange", friend_num,
                                                            pkt.data, pkt.data_length>>)],
                             friend_num, pkt.data, pkt.data_length),
                   ret |-> 0]
        ELSE IF pkt.id = "USERSTATUS"
        THEN IF pkt.data_length # 1 THEN [S |-> S0, ret |-> 0]
             ELSE IF pkt.data >= USERSTATUS_INVALID THEN [S |-> S0, ret |-> 0]
             ELSE [S |-> set_friend_userstatus(
                             [S0 EXCEPT !.cbs = Append(@, <<"friend_userstatuschange", friend_num,
                                                            pkt.data>>)],
                             friend_num, pkt.data),
                   ret |-> 0]
        ELSE IF pkt.id = "TYPING"
        THEN IF pkt.data_length # 1 THEN [S |-> S0, ret |-> 0]
             ELSE LET typing == IF pkt.data # 0 THEN 1 ELSE 0
                  IN  [S |-> [set_friend_typing(S0, friend_num, typing)
                                 EXCEPT !.cbs = Append(@, <<"friend_typingchange", friend_num, typing>>)],
                       ret |-> 0]
        ELSE IF pkt.id = "MESSAGE"
        THEN IF pkt.data_length = 0 THEN [S |-> S0, ret |-> 0]
             ELSE [S |-> [S0 EXCEPT !.cbs = Append(@, <<"friend_message", friend_num>>)],
                   ret |-> 0]
        ELSE IF pkt.id = "FILE_SENDREQUEST"
        THEN [S |-> handle_file_sendrequest(S0, friend_num, pkt), ret |-> 0]
        ELSE IF pkt.id = "FILE_CONTROL"
        THEN IF pkt.data_length < 3 \/ pkt.filenumber >= MAX_CONCURRENT_FILE_PIPES
             THEN [S |-> S0, ret |-> 0]
             ELSE [S |-> handle_filecontrol(S0, E, friend_num, pkt.send_receive, pkt.filenumber,
                                            pkt.control_type, pkt.position,
                                            pkt.data_length - 3).S,
                   ret |-> 0]
        ELSE IF pkt.id = "FILE_DATA"
        THEN [S |-> handle_file_data(S0, friend_num, pkt), ret |-> 0]
        ELSE [S |-> S0, ret |-> 0]

\* handle_packet: a friend that is not Online yet is made Online first (S0)
handle_packet(S, E, friend_num, device_id, pkt) ==
    handle_packet_switch(S,
                         IF S.fl[friend_num].status # FRIEND_ONLINE
                         THEN send_online_packet(
                                  set_device_status(
                                      set_friend_status(S, E, friend_num, FRIEND_ONLINE),
                                      friend_num, device_id, FDEV_ONLINE),
                                  E, friend_num, device_id).S
                         ELSE S,
                         E, friend_num, device_id, pkt)

\* ------------------------------------------------------------- save file
\* the bytes of a uint16_t swapped: htons and ntohs on a little-endian host
\* (little), the value itself on a big-endian one
htons(little, x) == IF little THEN (x % 256) * 256 + (x \div 256) ELSE x

ntohs(little, x) == htons(little, x)

Reverse(b) == [i \in 1 .. Len(b) |-> b[Len(b) + 1 - i]]

\* the eight bytes of a uint64_t in the memory of the host; the narrowed word
\* fills the four low bytes
HostBytes(little, x) ==
    LET le == [i \in 1 .. 8 |-> IF i <= 4 THEN (x \div (256 ^ (i - 1))) % 256 ELSE 0]
    IN  IF little THEN le ELSE Reverse(le)

HostValue(little, b) ==
    LET le == IF little THEN b ELSE Reverse(b)
    IN  le[1] + 256 * le[2] + 65536 * le[3] + 16777216 * le[4]

host_to_net(little, b) == IF little THEN Reverse(b) ELSE b

net_to_host(little, b) == host_to_net(little, b)

\* sizeof(struct SAVED_FRIEND) with 8-byte and with 4-byte alignment of uint64_t
SavedFriendSizes == {2192, 2188}

sizeof_SAVED_DEVICE == 33

count_friendlist(S) == Cardinality({i \in 0 .. S.nf - 1 : S.fl[i].status > 0})

RECURSIVE count_devices_from(_, _)
count_devices_from(S, i) ==
    IF i >= S.nf THEN 0
    ELSE (IF S.fl[i].status > 0 THEN S.fl[i].dev_count ELSE 0) + count_devices_from(S, i + 1)

count_devices(S) == count_devices_from(S, 0)

\* the length of the friends section for a roster of so many friends and devices
SectionSize(sizeof_SAVED_FRIEND, friends, devices) ==
    1 + friends * sizeof_SAVED_FRIEND + devices * sizeof_SAVED_DEVICE

saved_friendslist_size(S, sizeof_SAVED_FRIEND) ==
    SectionSize(sizeof_SAVED_FRIEND, count_friendlist(S), count_devices(S))

RECURSIVE devices_save(_, _)
devices_save(fr, device) ==
    IF device >= fr.dev_count THEN <<>>
    ELSE (IF fr.dev_list[device].status # NO_FDEV
          THEN <<[rec |-> "device", device_status |-> fr.dev_list[device].status,
                  real_pk |-> fr.dev_list[device].real_pk]>>
          ELSE <<>>) \o devices_save(fr, device + 1)

\* one SAVED_FRIEND followed by its SAVED_DEVICEs; the fields that are not
\* written keep the zero of the memset
friend_save(little, fr) ==
    LET devices == devices_save(fr, 0)
        pending == fr.status < 3
        temp == [rec |-> "friend",
                 status |-> fr.status,
                 info_size |-> IF pending THEN htons(little, fr.info_size) ELSE 0,
                 friendrequest_nospam |-> IF pending THEN fr.friendrequest_nospam ELSE 0,
                 name |-> IF pending \/ fr.name_length = 0 THEN 0 ELSE fr.name,
                 name_length |-> IF pending THEN 0 ELSE htons(little, fr.name_length),
                 statusmessage |-> IF pending \/ fr.statusmessage_length = 0 THEN 0
                                   ELSE fr.statusmessage,
                 statusmessage_length |-> IF pending THEN 0
                                          ELSE htons(little, fr.statusmessage_length),
                 userstatus |-> IF pending THEN 0 ELSE fr.userstatus,
                 last_seen_time |-> IF pending THEN HostBytes(little, 0)
                                    ELSE host_to_net(little, HostBytes(little, fr.last_seen_time)),
                 dev_count |-> Len(devices)]
    IN  <<temp>> \o devices

\* the records after the version byte
RECURSIVE friends_list_save_from(_, _, _)
friends_list_save_from(S, little, i) ==
    IF i >= S.nf THEN <<>>
    ELSE (IF S.fl[i].status > 0 THEN friend_save(little, S.fl[i]) ELSE <<>>)
         \o friends_list_save_from(S, little, i + 1)

friends_list_save(S, little) == friends_list_save_from(S, little, 0)

\* the test of the section length (without the version byte) before the records are read
LengthAccepted(sizeof_SAVED_FRIEND, length) ==
    ((length % sizeof_SAVED_FRIEND) % sizeof_SAVED_DEVICE) = 0

\* the devices after the first of a confirmed friend; bytes that are not a
\* device record are taken as a device without status
RECURSIVE load_devices(_, _, _, _, _, _, _)
load_devices(S, E, data, pos, device, dev_count, fnum) ==
    IF device >= dev_count THEN S
    ELSE LET usable == pos <= Len(data) /\ data[pos].rec = "device"
                       /\ data[pos].device_status # 0 /\ public_key_valid(data[pos].real_pk)
             S1 == IF usable
                   THEN m_add_device_to_friend_confirmed(S, E, data[pos].real_pk, fnum).S
                   ELSE S
         IN  load_devices(S1, E, data, pos + 1, device + 1, dev_count, fnum)

\* the while (length) loop; ret -2 stands for a read that leaves the records
\* (length is unsigned and runs below zero when the records are misaligned)
RECURSIVE friends_list_load_from(_, _, _, _, _, _, _, _)
friends_list_load_from(S, E, little, sizeof_SAVED_FRIEND, data, pos, length, friends) ==
    IF length = 0 THEN [S |-> S, ret |-> friends]
    ELSE IF pos + 1 > Len(data) THEN [S |-> S, ret |-> -2]
    ELSE IF data[pos].rec # "friend" \/ data[pos + 1].rec # "device" THEN [S |-> S, ret |-> -2]
    ELSE
    LET temp == data[pos]
        dev == data[pos + 1]
        length1 == length - sizeof_SAVED_FRIEND - sizeof_SAVED_DEVICE
    IN  IF temp.status >= 3
        THEN LET r == m_addfriend_norequest(S, E, dev.real_pk)
                 fnum == r.ret
                 S1 == setfriendname(r.S, fnum, temp.name, ntohs(little, temp.name_length))
                 S2 == set_friend_statusmessage(S1, fnum, temp.statusmessage,
                                                ntohs(little, temp.statusmessage_length))
                 S3 == set_friend_userstatus(S2, fnum, temp.userstatus)
                 S4 == [S3 EXCEPT !.fl[fnum].last_seen_time =
                                      HostValue(little, net_to_host(little, temp.last_seen_time))]
                 more == IF temp.dev_count > 1 THEN temp.dev_count - 1 ELSE 0
                 S5 == load_devices(S4, E, data, pos + 2, 1, temp.dev_count, fnum)
             IN  IF fnum < 0
                 THEN friends_list_load_from(r.S, E, little, sizeof_SAVED_FRIEND, data,
                                             pos + 2, length1, friends)
                 ELSE friends_list_load_from(S5, E, little, sizeof_SAVED_FRIEND, data,
                                             pos + 2 + more,
                                             length1 - more * sizeof_SAVED_DEVICE, friends + 1)
        ELSE IF temp.status # 0
        THEN friends_list_load_from(
                 m_addfriend(S, E, getaddress(dev.real_pk, temp.friendrequest_nospam),
                             ntohs(little, temp.info_size)).S,
                 E, little, sizeof_SAVED_FRIEND, data, pos + 2, length1, friends + 1)
        ELSE friends_list_load_from(S, E, little, sizeof_SAVED_FRIEND, data,
                                    pos + 2, length1, friends + 1)

\* data holds the records after the version byte 1, length counts that byte
friends_list_load(S, E, little, sizeof_SAVED_FRIEND, data, length) ==
    IF length < 1 THEN [S |-> S, ret |-> -1]
    ELSE IF ~LengthAccepted(sizeof_SAVED_FRIEND, length - 1) THEN [S |-> S, ret |-> -1]
    ELSE friends_list_load_from(S, E, little, sizeof_SAVED_FRIEND, data, 1, length - 1, 0)

\* ------------------------------------------------------------ own profile
\* all friends of the table get the flag cleared
ClearFlag(S, flag) ==
    [S EXCEPT !.fl = [i \in FriendIdx |-> IF i < S.nf THEN [S.fl[i] EXCEPT ![flag] = 0]
                                          ELSE S.fl[i]]]

\* setname that clears the flags although the name is the one it has
setname_always_resent(S, O, name, length) ==
    IF length > MAX_NAME_LENGTH THEN [S |-> S, own |-> O, ret |-> -1]
    ELSE [S |-> ClearFlag(S, "name_sent"),
          own |-> [O EXCEPT !.name = IF length # 0 THEN name ELSE @, !.name_length = length],
          ret |-> 0]

setname(S, O, name, length) ==
    IF length > MAX_NAME_LENGTH THEN [S |-> S, own |-> O, ret |-> -1]
    ELSE IF O.name_length = length /\ (length = 0 \/ name = O.name)
    THEN [S |-> S, own |-> O, ret |-> 0]
    ELSE [S |-> ClearFlag(S, "name_sent"),
          own |-> [O EXCEPT !.name = IF length # 0 THEN name ELSE @, !.name_length = length],
          ret |-> 0]

m_set_statusmessage(S, O, status, length) ==
    IF length > MAX_STATUSMESSAGE_LENGTH THEN [S |-> S, own |-> O, ret |-> -1]
    ELSE IF O.statusmessage_length = length /\ (length = 0 \/ status = O.statusmessage)
    THEN [S |-> S, own |-> O, ret |-> 0]
    ELSE [S |-> ClearFlag(S, "statusmessage_sent"),
          own |-> [O EXCEPT !.statusmessage = IF length # 0 THEN status ELSE @,
                            !.statusmessage_length = length],
          ret |-> 0]

m_set_userstatus(S, O, status) ==
    IF status >= USERSTATUS_INVALID THEN [S |-> S, own |-> O, ret |-> -1]
    ELSE IF O.userstatus = status THEN [S |-> S, own |-> O, ret |-> 0]
    ELSE [S |-> ClearFlag(S, "userstatus_sent"), own |-> [O EXCEPT !.userstatus = status],
          ret |-> 0]

m_set_usertyping(S, friendnumber, is_typing) ==
    IF is_typing # 0 /\ is_typing # 1 THEN [S |-> S, ret |-> -1]
    ELSE IF friend_not_valid(S, friendnumber) THEN [S |-> S, ret |-> -1]
    ELSE IF S.fl[friendnumber].user_istyping = is_typing THEN [S |-> S, ret |-> 0]
    ELSE [S |-> [S EXCEPT !.fl[friendnumber].user_istyping = is_typing,
                          !.fl[friendnumber].user_istyping_sent = 0],
          ret |-> 0]

\* ------------------------------------------------------------ do_friends
\* check_friend_request_timed_out that retries without backing off
check_friend_request_timed_out_no_backoff(S, E, i, t) ==
    IF S.fl[i].friendrequest_lastsent + S.fl[i].friendrequest_timeout < t
    THEN set_friend_status(S, E, i, FRIEND_ADDED)
    ELSE S

check_friend_request_timed_out(S, E, i, t) ==
    IF S.fl[i].friendrequest_lastsent + S.fl[i].friendrequest_timeout < t
    THEN [set_friend_status(S, E, i, FRIEND_ADDED)
             EXCEPT !.fl[i].friendrequest_timeout = @ * 2]
    ELSE S

\* send_profile that sets the flag whether or not the packet was written
send_profile_unchecked(S, E, i, flag, pkt) ==
    IF S.fl[i][flag] = 0
    THEN [write_cryptpacket_id(S, E, i, pkt, 1).S EXCEPT !.fl[i][flag] = 1]
    ELSE S

\* send one profile packet unless its flag says it was sent already
send_profile(S, E, i, flag, pkt) ==
    IF S.fl[i][flag] = 0
    THEN LET w == write_cryptpacket_id(S, E, i, pkt, 1)
         IN  IF w.ret # 0 THEN [w.S EXCEPT !.fl[i][flag] = 1] ELSE w.S
    ELSE S

\* do_friend that does not record when the friend request was sent
do_friend_request_unstamped(S, E, i, temp_time) ==
    LET Sa == IF S.fl[i].status = FRIEND_ADDED /\ E.req
              THEN set_friend_status(S, E, i, FRIEND_REQUESTED)
              ELSE S
        Sb == IF Sa.fl[i].status = FRIEND_REQUESTED
              THEN check_friend_request_timed_out(Sa, E, i, temp_time)
              ELSE Sa
    IN  Sb

do_friend(S, E, i, temp_time) ==
    LET Sa == IF S.fl[i].status = FRIEND_ADDED /\ E.req
              THEN [set_friend_status(S, E, i, FRIEND_REQUESTED)
                       EXCEPT !.fl[i].friendrequest_lastsent = temp_time]
              ELSE S
        Sb == IF Sa.fl[i].status = FRIEND_REQUESTED
              THEN check_friend_request_timed_out(Sa, E, i, temp_time)
              ELSE Sa
    IN  IF Sb.fl[i].status = FRIEND_ONLINE
        THEN LET S1 == send_profile(Sb, E, i, "name_sent", <<"NICKNAME">>)
                 S2 == send_profile(S1, E, i, "statusmessage_sent", <<"STATUSMESSAGE">>)
                 S3 == send_profile(S2, E, i, "userstatus_sent", <<"USERSTATUS">>)
                 S4 == send_profile(S3, E, i, "user_istyping_sent", <<"TYPING">>)
                 S5 == check_friend_tcp_udp(S4, E, i)
                 S6 == do_receipts(S5, i)
                 S7 == do_reqchunk_filecb(S6, E, i)
             IN  [S7 EXCEPT !.fl[i].last_seen_time = temp_time]
        ELSE Sb

RECURSIVE do_friends_from(_, _, _, _)
do_friends_from(S, E, i, temp_time) ==
    IF i >= S.nf THEN S
    ELSE do_friends_from(do_friend(S, E, i, temp_time), E, i + 1, temp_time)

do_friends(S, E, temp_time) == do_friends_from(S, E, 0, temp_time)

\* do_receipts with a read_receipt callback that sends a message to the same
\* friend, for the first `replies` receipts it is called for. The loop reads
\* receipts->next before the callback and makes it receipts_start after it:
\* what the callback linked behind the last entry goes with the freed entry
RECURSIVE do_receipts_replying(_, _, _, _)
do_receipts_replying(S, E, friendnumber, replies) ==
    IF friend_not_valid(S, friendnumber) THEN S
    ELSE LET receipts == S.fl[friendnumber].receipts
         IN  IF receipts = <<>> THEN S
             ELSE IF friend_received_packet(S, friendnumber, Head(receipts).packet_num) = -1 THEN S
             ELSE LET temp_r == Tail(receipts)
                      S1 == [S EXCEPT !.cbs = Append(@, <<"read_receipt", friendnumber,
                                                          Head(receipts).msg_id>>)]
                      S2 == IF replies > 0
                            THEN m_send_message_generic(S1, E, friendnumber, 0, 1).S
                            ELSE S1
                      start == IF temp_r = <<>> THEN <<>> ELSE Tail(S2.fl[friendnumber].receipts)
                  IN  do_receipts_replying([S2 EXCEPT !.fl[friendnumber].receipts = start],
                                           E, friendnumber,
                                           IF replies > 0 THEN replies - 1 ELSE 0)

\* do_friends for an Online friend i whose read_receipt callback sends messages
do_friend_replying(S, E, i, temp_time, replies) ==
    LET S1 == send_profile(S, E, i, "name_sent", <<"NICKNAME">>)
        S2 == send_profile(S1, E, i, "statusmessage_sent", <<"STATUSMESSAGE">>)
        S3 == send_profile(S2, E, i, "userstatus_sent", <<"USERSTATUS">>)
        S4 == send_profile(S3, E, i, "user_istyping_sent", <<"TYPING">>)
        S5 == check_friend_tcp_udp(S4, E, i)
        S6 == do_receipts_replying(S5, E, i, replies)
        S7 == do_reqchunk_filecb(S6, E, i)
    IN  [S7 EXCEPT !.fl[i].last_seen_time = temp_time]

\* ---------------------------------------------------------------- history
Kinds == {"NICKNAME", "STATUSMESSAGE", "USERSTATUS", "TYPING"}

InitHist ==
    [delivered |-> [f \in FriendIdx |-> <<>>],
     sent |-> [f \in FriendIdx |-> <<>>],
     chunks |-> [f \in FriendIdx |-> [p \in PipeIdx |-> <<>>]],
     start |-> [f \in FriendIdx |-> [p \in PipeIdx |-> 0]],
     expired |-> [f \in FriendIdx |-> 0]]

ResetFriendHist(H, f) ==
    [H EXCEPT !.delivered[f] = <<>>, !.sent[f] = <<>>,
              !.chunks[f] = [p \in PipeIdx |-> <<>>],
              !.start[f] = [p \in PipeIdx |-> 0],
              !.expired[f] = 0]

OnlineDevices(fl, f) ==
    {d \in 0 .. (fl[f].dev_count - 1) : fl[f].dev_list[d].status = FDEV_ONLINE}

RECURSIVE SeqSum(_)
SeqSum(q) == IF q = <<>> THEN 0 ELSE Head(q) + SeqSum(Tail(q))

\* number of packets of kind k the call wrote to connection c
Written(S, c, k) ==
    LET Hit(e) == e.conn = c /\ e.pkt[1] = k IN Len(SelectSeq(S.out, Hit))

\* the history after a call that began in the current state and ended in S
HistAfter(H, S) ==
    LET Receipts(f) ==
            LET Hit(e) == e[1] = "read_receipt" /\ e[2] = f
                q == SelectSeq(S.cbs, Hit)
            IN  [n \in 1 .. Len(q) |-> q[n][3]]
        Chunks(f, p) ==
            LET Hit(e) == e[1] = "file_reqchunk" /\ e[2] = f /\ e[3] = p /\ e[5] > 0
                q == SelectSeq(S.cbs, Hit)
            IN  [n \in 1 .. Len(q) |-> <<q[n][4], q[n][5]>>]
        \* 1 when the call put a Requested friend back to Added
        Expired(f) ==
            IF friendlist[f].status = FRIEND_REQUESTED /\ S.fl[f].status = FRIEND_ADDED
            THEN 1 ELSE 0
    IN  [H EXCEPT !.delivered = [f \in FriendIdx |-> H.delivered[f] \o Receipts(f)],
                  !.chunks = [f \in FriendIdx |-> [p \in PipeIdx |-> H.chunks[f][p] \o Chunks(f, p)]],
                  !.expired = [f \in FriendIdx |-> H.expired[f] + Expired(f)]]

\* the end of a call: the machine state S it produced becomes the state
ReturnedOwn(S, O, E, op, f, arg, ret, H) ==
    /\ friendlist' = S.fl
    /\ numfriends' = S.nf
    /\ conns' = S.co
    /\ cbs' = S.cbs
    /\ out' = S.out
    /\ last' = [op |-> op, f |-> f, arg |-> arg, ret |-> ret]
    /\ hist' = HistAfter(H, S)
    /\ own' = O
    /\ UNCHANGED now

\* the end of a call that leaves the own profile alone
Returned(S, E, op, f, arg, ret, H) == ReturnedOwn(S, own, E, op, f, arg, ret, H)

\* the end of a call whose packets go to a peer that is not followed
Done(S, E, op, f, arg, ret, H) ==
    /\ Returned(S, E, op, f, arg, ret, H)
    /\ UNCHANGED <<peer, wire>>

\* ------------------------------------------------------------ environment
AllConns(v) == [c \in ConnIds |-> v]

\* the environments with send queues accs (sets of connections) of room cap,
\* free slot counts frees, connection states stats, request outcomes reqs
Env(accs, cap, frees, speeds, stats, reqs) ==
    [acc : accs, cap : {cap}, free : {AllConns(v) : v \in frees}, maxspeed : speeds,
     stat : {AllConns(v) : v \in stats}, req : reqs]

Direct == [direct |-> TRUE, relays |-> 0]
Relayed == [direct |-> FALSE, relays |-> 1]
Neither == [direct |-> FALSE, relays |-> 0]

\* ---------------------------------------------------------------- actions
Init ==
    /\ friendlist = [f \in FriendIdx |-> ZeroFriend]
    /\ numfriends = 0
    /\ conns = [c \in ConnIds |-> ZeroConn]
    /\ now = 0
    /\ cbs = <<>>
    /\ out = <<>>
    /\ last = [op |-> "new_messenger", f |-> -1, arg |-> 0, ret |-> 0]
    /\ hist = InitHist
    /\ peer = [fl |-> [f \in FriendIdx |-> ZeroFriend], nf |-> 0,
               co |-> [c \in ConnIds |-> ZeroConn]]
    /\ wire = [toA |-> <<>>, toB |-> <<>>, gotA |-> 0, gotB |-> 0]
    /\ own = ZeroOwn

Occupied == {f \in 0 .. (numfriends - 1) : friendlist[f].status # NOFRIEND}

AddFriend(E, address, length) ==
    LET r == m_addfriend(Machine, E, address, length)
    IN  Done(r.S, E, "add_friend", r.ret, address[1], r.ret,
             IF r.ret >= 0 THEN ResetFriendHist(hist, r.ret) ELSE hist)

AddFriendNoRequest(E, real_pk) ==
    LET r == m_addfriend_norequest(Machine, E, real_pk)
    IN  Done(r.S, E, "add_friend_no_request", r.ret, real_pk, r.ret,
             IF r.ret >= 0 THEN ResetFriendHist(hist, r.ret) ELSE hist)

DelFriend(E, friendnumber) ==
    LET r == m_delfriend(Machine, E, friendnumber)
    IN  Done(r.S, E, "remove_friend", friendnumber, friendnumber, r.ret,
             IF r.ret = 0 THEN ResetFriendHist(hist, friendnumber) ELSE hist)

AddDevice(E, address, friend_number) ==
    /\ friend_number \in 0 .. (numfriends - 1)
    /\ LET r == m_add_device_to_friend(Machine, E, address, friend_number)
       IN  Done(r.S, E, "add_device", friend_number, address[1], r.ret, hist)

\* the transport reports the connection up / down to whoever registered for it
ConnUp(E, c) ==
    /\ conns[c].alive /\ ~conns[c].connected
    /\ LET S0 == [Machine EXCEPT !.co[c].connected = TRUE]
           f == conns[c].cb[1]
           d == conns[c].cb[2]
       IN  IF conns[c].cb = NoCb
           THEN Done(S0, E, "status_up", -1, c, 0, hist)
           ELSE Done(handle_status(S0, E, f, d, TRUE), E, "status_up", f, d, 0, hist)

ConnDown(E, c) ==
    /\ conns[c].alive /\ conns[c].connected
    /\ LET S0 == [Machine EXCEPT !.co[c].connected = FALSE]
           f == conns[c].cb[1]
           d == conns[c].cb[2]
       IN  IF conns[c].cb = NoCb
           THEN Done(S0, E, "status_down", -1, c, 0, hist)
           ELSE Done(handle_status(S0, E, f, d, FALSE), E, "status_down", f, d, 0, hist)

\* the peer acknowledges the oldest unacknowledged packet of the connection
Ack(c) ==
    /\ conns[c].alive /\ conns[c].connected
    /\ conns[c].acked < conns[c].sent
    /\ conns' = [conns EXCEPT ![c].acked = @ + 1]
    /\ cbs' = <<>>
    /\ out' = <<>>
    /\ last' = [op |-> "ack", f |-> -1, arg |-> c, ret |-> 0]
    /\ UNCHANGED <<friendlist, numfriends, now, hist, peer, wire, own>>

\* a packet of the peer arrives on the connection
Recv(E, c, pkt) ==
    /\ conns[c].alive /\ conns[c].connected
    /\ conns[c].cb # NoCb
    /\ LET f == conns[c].cb[1]
           d == conns[c].cb[2]
           r == handle_packet(Machine, E, f, d, pkt)
           seek == /\ pkt.id = "FILE_CONTROL" /\ pkt.control_type = FILECONTROL_SEEK
                   /\ pkt.send_receive = 1
                   /\ r.S.fl[f].file_sending # friendlist[f].file_sending
       IN  Done(r.S, E, "recv_" \o pkt.id, f, d, r.ret,
                IF seek THEN [hist EXCEPT !.start[f][pkt.filenumber] = pkt.position] ELSE hist)

SendMessage(E, f, type, length) ==
    /\ f \in Occupied => friendlist[f].message_id < MaxMsgId
    /\ LET r == m_send_message_generic(Machine, E, f, type, length)
           p == r.S.out[Len(r.S.out)]
       IN  Done(r.S, E, "send_message", f, r.id, r.ret,
                IF r.ret = 0
                THEN [hist EXCEPT !.sent[f] = Append(@, [id |-> r.id, conn |-> p.conn, num |-> p.num])]
                ELSE hist)

NewFileSend(E, f, filesize) ==
    LET r == new_filesender(Machine, E, f, filesize, 1)
    IN  Done(r.S, E, "new_file_send", f, filesize, r.ret,
             IF r.ret >= 0
             THEN [hist EXCEPT !.chunks[f][r.ret] = <<>>, !.start[f][r.ret] = 0]
             ELSE hist)

FileControl(E, f, filenumber, control) ==
    LET r == file_control(Machine, E, f, filenumber, control)
    IN  Done(r.S, E, "file_control", f, <<filenumber, control>>, r.ret, hist)

FileSeek(E, f, filenumber, position) ==
    LET r == file_seek(Machine, E, f, filenumber, position)
    IN  Done(r.S, E, "file_seek", f, <<filenumber, position>>, r.ret, hist)

FileData(E, f, filenumber, position, length) ==
    LET r == file_data(Machine, E, f, filenumber, position, length)
    IN  Done(r.S, E, "file_data", f, <<filenumber, position, length>>, r.ret, hist)

SetName(E, name, length) ==
    LET r == setname(Machine, own, name, length)
    IN  /\ ReturnedOwn(r.S, r.own, E, "set_name", -1, <<name, length>>, r.ret, hist)
        /\ UNCHANGED <<peer, wire>>

SetStatusMessage(E, status, length) ==
    LET r == m_set_statusmessage(Machine, own, status, length)
    IN  /\ ReturnedOwn(r.S, r.own, E, "set_status_message", -1, <<status, length>>, r.ret, hist)
        /\ UNCHANGED <<peer, wire>>

SetUserStatus(E, status) ==
    LET r == m_set_userstatus(Machine, own, status)
    IN  /\ ReturnedOwn(r.S, r.own, E, "set_user_status", -1, status, r.ret, hist)
        /\ UNCHANGED <<peer, wire>>

SetTyping(E, friendnumber, is_typing) ==
    LET r == m_set_usertyping(Machine, friendnumber, is_typing)
    IN  Done(r.S, E, "set_typing", friendnumber, is_typing, r.ret, hist)

\* do_messenger: the transport work is the environment's; do_friends is ours
Tick(E) ==
    Done(do_friends(Machine, E, now), E, "tick", -1, E.free, 0, hist)

\* a tick of a messenger with the one friend 0, Online, whose read_receipt
\* callback sends a message to friend 0 `replies` times
TickReplying(E, replies) ==
    /\ numfriends = 1
    /\ friendlist[0].status = FRIEND_ONLINE
    /\ friendlist[0].message_id + replies <= MaxMsgId
    /\ Done(do_friend_replying(Machine, E, 0, now, replies), E, "tick_replying", 0, replies, 0, hist)

AdvanceTime(dt) ==
    /\ now + dt <= MaxTime
    /\ now' = now + dt
    /\ cbs' = <<>>
    /\ out' = <<>>
    /\ last' = [op |-> "time", f |-> -1, arg |-> dt, ret |-> 0]
    /\ UNCHANGED <<friendlist, numfriends, conns, hist, peer, wire, own>>

\* the friends section is saved, the messenger is made anew and the section is
\* loaded into it, on a host of either byte order and either struct alignment
NewMessenger ==
    [fl |-> [f \in FriendIdx |-> ZeroFriend], nf |-> 0, co |-> [c \in ConnIds |-> ZeroConn],
     cbs |-> <<>>, out |-> <<>>]

Reload(E, little, sizeof_SAVED_FRIEND) ==
    LET data == friends_list_save(Machine, little)
        length == saved_friendslist_size(Machine, sizeof_SAVED_FRIEND)
        r == friends_list_load(NewMessenger, E, little, sizeof_SAVED_FRIEND, data, length)
    IN  Done(r.S, E, "save_load", -1, count_friendlist(Machine), r.ret, InitHist)

\* the length test of the load, applied to the section length of a roster of so
\* many friends and devices; the roster itself is not followed
ReloadSized(sizeof_SAVED_FRIEND, friends, devices) ==
    /\ last' = [op |-> "save_load_sized", f |-> friends, arg |-> devices,
                ret |-> IF LengthAccepted(sizeof_SAVED_FRIEND,
                                          SectionSize(sizeof_SAVED_FRIEND, friends, devices) - 1)
                        THEN friends ELSE -1]
    /\ cbs' = <<>>
    /\ out' = <<>>
    /\ UNCHANGED <<friendlist, numfriends, conns, now, hist, peer, wire, own>>

\* ------------------------------------------------- presence specification
\* the roster and the presence of friends and devices: no messages, no files
KeysP == {1, 2}
NospamsP == {1}
MaxSentP == 1

\* the transport refuses every write / takes writes on every connection
Refusing(cap) == Env({{}}, cap, {0}, {{}}, {Direct}, {FALSE})
Taking(cap) == Env({{}, ConnIds}, cap, {0}, {{}}, {Direct}, {FALSE})

NextP ==
    \/ \E E \in Refusing(MaxSentP), pk \in KeysP, nospam \in NospamsP :
           AddFriend(E, getaddress(pk, nospam), 2)
    \/ \E E \in Refusing(MaxSentP), pk \in KeysP : AddFriendNoRequest(E, pk)
    \/ \E E \in Refusing(MaxSentP), pk \in KeysP, nospam \in NospamsP, f \in FriendIdx :
           AddDevice(E, getaddress(pk, nospam), f)
    \/ \E E \in Taking(MaxSentP), c \in ConnIds : ConnUp(E, c)
    \/ \E E \in Refusing(MaxSentP), c \in ConnIds : ConnDown(E, c)
    \/ \E E \in Taking(MaxSentP), c \in ConnIds : Recv(E, c, Packet("ONLINE", 0))
    \/ \E E \in Taking(MaxSentP), c \in ConnIds : Recv(E, c, Packet("OFFLINE", 0))
    \/ \E E \in Env({{}, ConnIds}, MaxSentP, {0}, {{}}, {Direct}, BOOLEAN) : Tick(E)

SpecP == Init /\ [][NextP]_vars

\* ---------------------------------------------------- file specifications
\* one friend with one device and pipe 0 of each direction
KeysF == {1}
MaxSentF == 3
SizesF == {0, 2000, UINT64_MAX}
MaxRecvF == 2742
FreesF == {MIN_SLOTS_FREE - 1, MIN_SLOTS_FREE + 1}

EnvF == Env({{}, ConnIds}, MaxSentF, {0}, {{}}, {Direct}, {FALSE})
\* the profile packets of do_friends find the send queue full
TickF == Env({{}}, MaxSentF, FreesF, {{}}, {Direct}, {FALSE})
DataF == Env({{}, ConnIds}, MaxSentF, {MIN_SLOTS_FREE - 1, MIN_SLOTS_FREE}, {{}}, {Direct}, {FALSE})

FilePacket(id, data_length, send_receive, filenumber, control_type, position, filesize) ==
    [Packet(id, data_length) EXCEPT !.send_receive = send_receive, !.filenumber = filenumber,
                                    !.control_type = control_type, !.position = position,
                                    !.filesize = filesize]

\* the lengths an application hands to file_data for the chunk at `transferred`
DataLengths(ft) ==
    {MAX_FILE_DATA_SIZE, 629, Min(MAX_FILE_DATA_SIZE, u64(ft.size - ft.transferred))}

\* the side of pipe 0 a call or packet addresses holds a transfer
Sends(f) == friendlist[f].file_sending[0].status # FILESTATUS_NONE
Receives(f) == friendlist[f].file_receiving[0].status # FILESTATUS_NONE
SendsNext(f) == friendlist[f].file_sending[1].status # FILESTATUS_NONE

\* pauses are exercised on the outgoing transfer; the incoming one is accepted, sought, fed and killed
NextF ==
    \/ \E E \in Refusing(MaxSentF), pk \in KeysF : numfriends = 0 /\ AddFriendNoRequest(E, pk)
    \/ \E E \in Refusing(MaxSentF), c \in ConnIds : ConnUp(E, c)
    \/ \E E \in Refusing(MaxSentF), c \in ConnIds :
           /\ \A f \in Occupied : friendlist[f].status # FRIEND_ONLINE
           /\ Recv(E, c, Packet("ONLINE", 0))
    \/ \E E \in EnvF, f \in Occupied, size \in SizesF :
           /\ ~Sends(f)
           /\ NewFileSend(E, f, size)
    \/ \E E \in EnvF, f \in Occupied, filenumber \in {0, 65536},
          control \in {FILECONTROL_ACCEPT, FILECONTROL_PAUSE, FILECONTROL_KILL} :
           /\ IF filenumber = 0 THEN Sends(f) ELSE Receives(f) /\ control # FILECONTROL_PAUSE
           /\ FileControl(E, f, filenumber, control)
    \/ \E E \in EnvF, f \in Occupied, position \in {MAX_FILE_DATA_SIZE, 2742} :
           /\ Receives(f)
           /\ FileSeek(E, f, 65536, position)
    \/ \E E \in DataF, f \in Occupied : \E length \in DataLengths(friendlist[f].file_sending[0]) :
           /\ Sends(f)
           /\ FileData(E, f, 0, friendlist[f].file_sending[0].transferred, length)
    \/ \E E \in EnvF, c \in ConnIds, size \in SizesF :
           /\ \A f \in Occupied : ~Receives(f)
           /\ Recv(E, c, FilePacket("FILE_SENDREQUEST", 46, 0, 0, 0, 0, size))
    \/ \E E \in EnvF, c \in ConnIds, length \in {0, 629, MAX_FILE_DATA_SIZE} :
           /\ \A f \in Occupied :
                 /\ Receives(f)
                 /\ friendlist[f].file_receiving[0].transferred + length <= MaxRecvF
           /\ Recv(E, c, FilePacket("FILE_DATA", 1 + length, 0, 0, 0, 0, 0))
    \/ \E E \in EnvF, c \in ConnIds, send_receive \in {0, 1},
          control \in {FILECONTROL_ACCEPT, FILECONTROL_PAUSE, FILECONTROL_KILL} :
           /\ \A f \in Occupied :
                 IF send_receive = 1 THEN Sends(f) ELSE Receives(f) /\ control # FILECONTROL_PAUSE
           /\ Recv(E, c, FilePacket("FILE_CONTROL", 3, send_receive, 0, control, 0, 0))
    \/ \E E \in EnvF, c \in ConnIds :
           /\ \A f \in Occupied : Sends(f)
           /\ Recv(E, c, FilePacket("FILE_CONTROL", 11, 1, 0, FILECONTROL_SEEK, MAX_FILE_DATA_SIZE, 0))
    \/ \E E \in TickF : Tick(E)

SpecF == Init /\ [][NextF]_vars

\* ---------------------------------------------------- resync specification
\* one friend with one device whose connection comes and goes
KeysR == {1}
MaxSentR == 8

NextR ==
    \/ \E E \in Refusing(MaxSentR), pk \in KeysR : AddFriendNoRequest(E, pk)
    \/ \E E \in Taking(MaxSentR), c \in ConnIds : ConnUp(E, c)
    \/ \E E \in Refusing(MaxSentR), c \in ConnIds : ConnDown(E, c)
    \/ \E E \in Refusing(MaxSentR), c \in ConnIds : Recv(E, c, Packet("ONLINE", 0))
    \/ \E E \in Refusing(MaxSentR), c \in ConnIds : Recv(E, c, Packet("OFFLINE", 0))
    \/ \E E \in Taking(MaxSentR) : Tick(E)
    \/ \E c \in ConnIds : Ack(c)

SpecR == Init /\ [][NextR]_vars

\* --------------------------------------------------- message specification
\* one friend with up to two devices; ticks find the send queue full
KeysM == {1}
DeviceKeysM == {2}
MaxSentM == 3

NextM ==
    \/ \E E \in Refusing(MaxSentM), pk \in KeysM : AddFriendNoRequest(E, pk)
    \/ \E E \in Refusing(MaxSentM), pk \in DeviceKeysM, f \in FriendIdx :
           AddDevice(E, getaddress(pk, 1), f)
    \/ \E E \in Taking(MaxSentM), c \in ConnIds : ConnUp(E, c)
    \/ \E E \in Refusing(MaxSentM), c \in ConnIds : Recv(E, c, Packet("ONLINE", 0))
    \/ \E E \in Taking(MaxSentM), f \in FriendIdx, length \in {1, MAX_CRYPTO_DATA_SIZE},
             type \in {0, 2} :
           SendMessage(E, f, type, length)
    \/ \E c \in ConnIds : Ack(c)
    \/ \E E \in Refusing(MaxSentM) : Tick(E)

SpecM == Init /\ [][NextM]_vars

\* ------------------------------------------- concurrent sends specification
\* one friend with one device and up to two outgoing transfers at a time;
\* the send queue shows the same number of free slots at every tick
KeysS == {1}
MaxSentS == 3
SizesS == {2742, 4113}
FreesS == {MIN_SLOTS_FREE + 3}

EnvS == Env({{}, ConnIds}, MaxSentS, {0}, {{}}, {Direct}, {FALSE})
TickS == Env({{}}, MaxSentS, FreesS, {{}}, {Direct}, {FALSE})
DataS == Env({{}, ConnIds}, MaxSentS, FreesS, {{}}, {Direct}, {FALSE})

NextS ==
    \/ \E E \in Refusing(MaxSentS), pk \in KeysS : AddFriendNoRequest(E, pk)
    \/ \E E \in Refusing(MaxSentS), c \in ConnIds : ConnUp(E, c)
    \/ \E E \in Refusing(MaxSentS), c \in ConnIds : ConnDown(E, c)
    \/ \E E \in Refusing(MaxSentS), c \in ConnIds : Recv(E, c, Packet("ONLINE", 0))
    \/ \E E \in EnvS, f \in Occupied, size \in SizesS : NewFileSend(E, f, size)
    \/ \E E \in EnvS, c \in ConnIds, filenumber \in PipeIdx,
          control \in {FILECONTROL_ACCEPT, FILECONTROL_PAUSE} :
           Recv(E, c, FilePacket("FILE_CONTROL", 3, 1, filenumber, control, 0, 0))
    \/ \E E \in DataS, f \in Occupied, filenumber \in PipeIdx :
          \E length \in DataLengths(friendlist[f].file_sending[filenumber]) :
           FileData(E, f, filenumber, friendlist[f].file_sending[filenumber].transferred, length)
    \/ \E E \in TickS : Tick(E)

SpecS == Init /\ [][NextS]_vars

\* ------------------------------------------- outgoing data specification
\* one friend with one device and up to two outgoing transfers; the
\* application supplies data at right and wrong positions, the peer
\* acknowledges packets
KeysD == {1}
MaxSentD == 4
SizesD == {0, 2000}
FreesD == {MIN_SLOTS_FREE - 1, MIN_SLOTS_FREE + 1}

EnvD == Env({{}, ConnIds}, MaxSentD, {0}, {{}}, {Direct}, {FALSE})
TickD == Env({{}}, MaxSentD, FreesD, {{}}, {Direct}, {FALSE})
DataD == Env({{}, ConnIds}, MaxSentD, {MIN_SLOTS_FREE - 1, MIN_SLOTS_FREE}, {{}}, {Direct}, {FALSE})

\* the positions and lengths an application hands to file_data: the right ones,
\* a position one byte further, a length one byte too long
DataPositions(ft) == {ft.transferred, u64(ft.transferred + 1)}

DataLengthsD(ft) ==
    {MAX_FILE_DATA_SIZE, Min(MAX_FILE_DATA_SIZE, u64(ft.size - ft.transferred)), MAX_FILE_DATA_SIZE + 1}

NextD ==
    \/ \E E \in Refusing(MaxSentD), pk \in KeysD : numfriends = 0 /\ AddFriendNoRequest(E, pk)
    \/ \E E \in Refusing(MaxSentD), c \in ConnIds : ConnUp(E, c)
    \/ \E E \in Refusing(MaxSentD), c \in ConnIds :
           /\ \A f \in Occupied : friendlist[f].status # FRIEND_ONLINE
           /\ Recv(E, c, Packet("ONLINE", 0))
    \/ \E E \in EnvD, f \in Occupied, size \in SizesD :
           /\ ~(Sends(f) /\ SendsNext(f))
           /\ NewFileSend(E, f, size)
    \/ \E E \in EnvD, c \in ConnIds, filenumber \in PipeIdx,
          control \in {FILECONTROL_ACCEPT, FILECONTROL_KILL} :
           /\ \A f \in Occupied : friendlist[f].file_sending[filenumber].status # FILESTATUS_NONE
           /\ Recv(E, c, FilePacket("FILE_CONTROL", 3, 1, filenumber, control, 0, 0))
    \/ \E E \in DataD, f \in Occupied, filenumber \in PipeIdx :
          \E position \in DataPositions(friendlist[f].file_sending[filenumber]),
             length \in DataLengthsD(friendlist[f].file_sending[filenumber]) :
           /\ friendlist[f].file_sending[filenumber].status # FILESTATUS_NONE
           /\ FileData(E, f, filenumber, position, length)
    \/ \E E \in TickD : Tick(E)
    \/ \E c \in ConnIds : Ack(c)

SpecD == Init /\ [][NextD]_vars

\* ------------------------------------------------------ seek specification
\* one friend with one device and pipe 0 of each direction; transfers are
\* offered, sought by either side, accepted, started and killed
KeysK == {1}
MaxSentK == 3
SizesK == {0, 2000}
FreesK == {MIN_SLOTS_FREE + 1}

\* seek positions inside and past a file of 2000 bytes; the lengths of a SEEK
\* packet with a payload of 8 bytes and of one with 7
SeekPositions == {MAX_FILE_DATA_SIZE, 2742}
SeekLengths == {3 + 8, 3 + 7}

EnvK == Env({{}, ConnIds}, MaxSentK, {0}, {{}}, {Direct}, {FALSE})
TickK == Env({{}}, MaxSentK, FreesK, {{}}, {Direct}, {FALSE})
DataK == Env({{}, ConnIds}, MaxSentK, {MIN_SLOTS_FREE}, {{}}, {Direct}, {FALSE})

NextK ==
    \/ \E E \in Refusing(MaxSentK), pk \in KeysK : numfriends = 0 /\ AddFriendNoRequest(E, pk)
    \/ \E E \in Refusing(MaxSentK), c \in ConnIds : ConnUp(E, c)
    \/ \E E \in Refusing(MaxSentK), c \in ConnIds :
           /\ \A f \in Occupied : friendlist[f].status # FRIEND_ONLINE
           /\ Recv(E, c, Packet("ONLINE", 0))
    \/ \E E \in EnvK, f \in Occupied, size \in SizesK :
           /\ ~Sends(f)
           /\ NewFileSend(E, f, size)
    \/ \E E \in EnvK, c \in ConnIds, size \in SizesK :
           /\ \A f \in Occupied : ~Receives(f)
           /\ Recv(E, c, FilePacket("FILE_SENDREQUEST", 46, 0, 0, 0, 0, size))
    \/ \E E \in EnvK, f \in Occupied, filenumber \in {0, 65536}, position \in SeekPositions :
           /\ IF filenumber = 0 THEN Sends(f) ELSE Receives(f)
           /\ FileSeek(E, f, filenumber, position)
    \/ \E E \in EnvK, c \in ConnIds, send_receive \in {0, 1}, position \in SeekPositions,
          data_length \in SeekLengths :
           /\ \A f \in Occupied : IF send_receive = 1 THEN Sends(f) ELSE Receives(f)
           /\ Recv(E, c, FilePacket("FILE_CONTROL", data_length, send_receive, 0, FILECONTROL_SEEK,
                                    position, 0))
    \/ \E E \in EnvK, f \in Occupied :
           /\ Receives(f)
           /\ FileControl(E, f, 65536, FILECONTROL_ACCEPT)
    \/ \E E \in EnvK, c \in ConnIds, send_receive \in {0, 1},
          control \in {FILECONTROL_ACCEPT, FILECONTROL_KILL} :
           /\ \A f \in Occupied :
                 IF send_receive = 1 THEN Sends(f) ELSE Receives(f) /\ control = FILECONTROL_KILL
           /\ Recv(E, c, FilePacket("FILE_CONTROL", 3, send_receive, 0, control, 0, 0))
    \/ \E E \in DataK, f \in Occupied : \E length \in DataLengths(friendlist[f].file_sending[0]) :
           /\ Sends(f)
           /\ FileData(E, f, 0, friendlist[f].file_sending[0].transferred, length)
    \/ \E E \in TickK : Tick(E)

SpecK == Init /\ [][NextK]_vars

\* --------------------------------------------------- request specification
\* one friend added by address; the friend request goes out on a tick, or
\* fails to, and times out as the clock advances
KeysQ == {1}
NospamsQ == {1}
TimeSteps == {1, FRIENDREQUEST_TIMEOUT}

\* a tick whose writes are refused and whose friend request is sent or not
TickQ == Env({{}}, MaxSentP, {0}, {{}}, {Direct}, BOOLEAN)

NextQ ==
    \/ \E E \in Refusing(MaxSentP), pk \in KeysQ, nospam \in NospamsQ :
           numfriends = 0 /\ AddFriend(E, getaddress(pk, nospam), 2)
    \/ \E E \in Refusing(MaxSentP), c \in ConnIds : ConnUp(E, c)
    \/ \E E \in Refusing(MaxSentP), c \in ConnIds :
           /\ \A f \in Occupied : friendlist[f].status # FRIEND_ONLINE
           /\ Recv(E, c, Packet("ONLINE", 0))
    \/ \E E \in TickQ : Tick(E)
    \/ \E dt \in TimeSteps : AdvanceTime(dt)

SpecQ == Init /\ [][NextQ]_vars

\* ------------------------------------------------ handshake specification
\* two messengers A and B: friendlist, numfriends and conns are A's, peer is
\* B's. A holds B by add_friend_no_request, B holds A by add_friend; what one
\* writes on the connection between them is what the other receives, in order.
\* A second device of B is known to A only; its packets come from outside.
KeyOfB == 1
KeyOfA == 2
DeviceKeyH == 3
MaxSentH == 3

EnvH == Env({{}, ConnIds}, MaxSentH, {0}, {{}}, {Direct}, {FALSE})
TickH == Env({{}, ConnIds}, MaxSentH, {0}, {{}}, {Direct}, BOOLEAN)

PeerMachine == [fl |-> peer.fl, nf |-> peer.nf, co |-> peer.co, cbs |-> <<>>, out |-> <<>>]

HoldsA == numfriends > 0 /\ friendlist[0].status # NOFRIEND
HoldsB == peer.nf > 0 /\ peer.fl[0].status # NOFRIEND
LinkA == friendlist[0].dev_list[0].friendcon_id
LinkB == peer.fl[0].dev_list[0].friendcon_id

\* the packets the call that ended in S wrote to connection c, in order
OnLink(S, c) ==
    LET Hit(e) == e.conn = c
        q == SelectSeq(S.out, Hit)
    IN  [n \in 1 .. Len(q) |-> q[n].pkt[1]]

Onlines(id) == IF id = "ONLINE" THEN 1 ELSE 0

\* the end of a call of A whose packets travel to B
ReturnedA(S, E, op, f, arg, ret) ==
    /\ Returned(S, E, op, f, arg, ret, hist)
    /\ UNCHANGED peer

\* the end of a call of B
ReturnedB(S, op, arg, ret) ==
    /\ peer' = [fl |-> S.fl, nf |-> S.nf, co |-> S.co]
    /\ cbs' = <<>>
    /\ out' = <<>>
    /\ last' = [op |-> op, f |-> -1, arg |-> arg, ret |-> ret]
    /\ UNCHANGED <<friendlist, numfriends, conns, now, hist, own>>

PeerAddFriend(E, address, length) ==
    /\ peer.nf = 0
    /\ LET r == m_addfriend(PeerMachine, E, address, length)
       IN  ReturnedB(r.S, "peer_add_friend", address[1], r.ret)
    /\ UNCHANGED wire

\* the connection between A and B comes up, as seen by A / by B
LinkUpA(E) ==
    /\ HoldsA /\ HoldsB
    /\ ~conns[LinkA].connected
    /\ LET S == handle_status([Machine EXCEPT !.co[LinkA].connected = TRUE], E, 0, 0, TRUE)
       IN  /\ ReturnedA(S, E, "status_up", 0, 0, 0)
           /\ wire' = [wire EXCEPT !.toB = @ \o OnLink(S, LinkA)]

LinkUpB(E) ==
    /\ HoldsA /\ HoldsB
    /\ ~peer.co[LinkB].connected
    /\ LET S == handle_status([PeerMachine EXCEPT !.co[LinkB].connected = TRUE], E, 0, 0, TRUE)
       IN  /\ ReturnedB(S, "peer_status_up", 0, 0)
           /\ wire' = [wire EXCEPT !.toA = @ \o OnLink(S, LinkB)]

\* the oldest packet in flight arrives at A / at B
DeliverA(E) ==
    /\ HoldsA /\ conns[LinkA].connected
    /\ wire.toA # <<>>
    /\ LET id == Head(wire.toA)
           r == handle_packet(Machine, E, 0, 0, Packet(id, 0))
       IN  /\ ReturnedA(r.S, E, "recv_" \o id, 0, 0, r.ret)
           /\ wire' = [wire EXCEPT !.toA = Tail(@),
                                   !.toB = @ \o OnLink(r.S, LinkA),
                                   !.gotA = @ + Onlines(id)]

DeliverB(E) ==
    /\ HoldsB /\ peer.co[LinkB].connected
    /\ wire.toB # <<>>
    /\ LET id == Head(wire.toB)
           r == handle_packet(PeerMachine, E, 0, 0, Packet(id, 0))
       IN  /\ ReturnedB(r.S, "peer_recv_" \o id, 0, r.ret)
           /\ wire' = [wire EXCEPT !.toB = Tail(@),
                                   !.toA = @ \o OnLink(r.S, LinkB),
                                   !.gotB = @ + Onlines(id)]

TickA(E) ==
    LET S == do_friends(Machine, E, now)
    IN  /\ ReturnedA(S, E, "tick", -1, E.free, 0)
        /\ wire' = [wire EXCEPT !.toB = @ \o (IF HoldsA THEN OnLink(S, LinkA) ELSE <<>>)]

TickB(E) ==
    LET S == do_friends(PeerMachine, E, now)
    IN  /\ ReturnedB(S, "peer_tick", 0, 0)
        /\ wire' = [wire EXCEPT !.toA = @ \o (IF HoldsB THEN OnLink(S, LinkB) ELSE <<>>)]

NextH ==
    \/ \E E \in Refusing(MaxSentH) : numfriends = 0 /\ AddFriendNoRequest(E, KeyOfB)
    \/ \E E \in Refusing(MaxSentH) : PeerAddFriend(E, getaddress(KeyOfA, 1), 2)
    \/ \E E \in Refusing(MaxSentH) :
           /\ HoldsA /\ friendlist[0].dev_count = 1
           /\ AddDevice(E, getaddress(DeviceKeyH, 1), 0)
    \/ \E E \in EnvH, c \in ConnIds : conns[c].cb = <<0, 1>> /\ ConnUp(E, c)
    \/ \E E \in EnvH, c \in ConnIds : conns[c].cb = <<0, 1>> /\ Recv(E, c, Packet("ONLINE", 0))
    \/ \E E \in EnvH : LinkUpA(E)
    \/ \E E \in EnvH : LinkUpB(E)
    \/ \E E \in EnvH : DeliverA(E)
    \/ \E E \in EnvH : DeliverB(E)
    \/ \E E \in TickH : TickA(E)
    \/ \E E \in TickH : TickB(E)

SpecH == Init /\ [][NextH]_vars

\* ------------------------------------------------- control specification
\* one friend with one outgoing and one incoming transfer of two chunks;
\* either side accepts, pauses and kills, the outgoing one is fed to its end
KeysC == {1}
MaxSentC == 3
SizesC == {2000}
FreesC == {MIN_SLOTS_FREE + 1}

EnvC == Env({{}, ConnIds}, MaxSentC, {0}, {{}}, {Direct}, {FALSE})
TickC == Env({{}}, MaxSentC, FreesC, {{}}, {Direct}, {FALSE})
DataC == Env({{}, ConnIds}, MaxSentC, {MIN_SLOTS_FREE}, {{}}, {Direct}, {FALSE})

NextC ==
    \/ \E E \in Refusing(MaxSentC), pk \in KeysC : numfriends = 0 /\ AddFriendNoRequest(E, pk)
    \/ \E E \in Refusing(MaxSentC), c \in ConnIds : ConnUp(E, c)
    \/ \E E \in Refusing(MaxSentC), c \in ConnIds :
           /\ \A f \in Occupied : friendlist[f].status # FRIEND_ONLINE
           /\ Recv(E, c, Packet("ONLINE", 0))
    \/ \E E \in EnvC, f \in Occupied, size \in SizesC :
           /\ ~Sends(f)
           /\ NewFileSend(E, f, size)
    \/ \E E \in EnvC, f \in Occupied, filenumber \in {0, 65536},
          control \in {FILECONTROL_ACCEPT, FILECONTROL_PAUSE, FILECONTROL_KILL} :
           /\ IF filenumber = 0 THEN Sends(f) ELSE Receives(f) /\ control # FILECONTROL_PAUSE
           /\ FileControl(E, f, filenumber, control)
    \/ \E E \in DataC, f \in Occupied : \E length \in DataLengths(friendlist[f].file_sending[0]) :
           /\ Sends(f)
           /\ FileData(E, f, 0, friendlist[f].file_sending[0].transferred, length)
    \/ \E E \in EnvC, c \in ConnIds, size \in SizesC :
           /\ \A f \in Occupied : ~Receives(f)
           /\ Recv(E, c, FilePacket("FILE_SENDREQUEST", 46, 0, 0, 0, 0, size))
    \/ \E E \in EnvC, c \in ConnIds, send_receive \in {0, 1},
          control \in {FILECONTROL_ACCEPT, FILECONTROL_PAUSE, FILECONTROL_KILL} :
           /\ \A f \in Occupied :
                 IF send_receive = 1 THEN Sends(f) ELSE Receives(f) /\ control # FILECONTROL_PAUSE
           /\ Recv(E, c, FilePacket("FILE_CONTROL", 3, send_receive, 0, control, 0, 0))
    \/ \E E \in TickC : Tick(E)

SpecC == Init /\ [][NextC]_vars

\* -------------------------------------------------- nospam specification
\* two keys are added by address with either nospam and by key alone; the
\* friends send their request and are removed, friend 0 comes online
KeysN == {1, 2}
NospamsN == {1, 2}

TickN == Env({{}}, MaxSentP, {0}, {{}}, {Direct}, {TRUE})

NextN ==
    \/ \E E \in Refusing(MaxSentP), pk \in KeysN, nospam \in NospamsN :
           AddFriend(E, getaddress(pk, nospam), 2)
    \/ \E E \in Refusing(MaxSentP), pk \in KeysN : AddFriendNoRequest(E, pk)
    \/ \E E \in Refusing(MaxSentP), f \in Occupied : DelFriend(E, f)
    \/ \E E \in Refusing(MaxSentP), c \in ConnIds : conns[c].cb = <<0, 0>> /\ ConnUp(E, c)
    \/ \E E \in Refusing(MaxSentP), c \in ConnIds :
           conns[c].cb = <<0, 0>> /\ Recv(E, c, Packet("ONLINE", 0))
    \/ \E E \in TickN : Tick(E)

SpecN == Init /\ [][NextN]_vars

\* -------------------------------------------------- roster specification
\* friends are added by address and by key and removed, in any order; friend 0
\* gains a device; indices one past the table are tried too
KeysB == {1, 2}
DeviceKeysB == {3}
NospamsB == {1, 2}
IndicesB == -1 .. MaxFriends

NextB ==
    \/ \E E \in Refusing(MaxSentP), pk \in KeysB, nospam \in NospamsB :
           AddFriend(E, getaddress(pk, nospam), 2)
    \/ \E E \in Refusing(MaxSentP), pk \in KeysB : AddFriendNoRequest(E, pk)
    \/ \E E \in Refusing(MaxSentP), pk \in KeysB \cup DeviceKeysB :
           AddDevice(E, getaddress(pk, 1), 0)
    \/ \E E \in Refusing(MaxSentP), f \in IndicesB : DelFriend(E, f)
    \/ \E E \in Refusing(MaxSentP), little \in BOOLEAN, size \in SavedFriendSizes :
           Reload(E, little, size)

SpecB == Init /\ [][NextB]_vars

\* ----------------------------------------------- save file specification
\* a pending friend with a greeting and a nospam, friends added by key of which
\* the one with key 2 comes online and sends its profile, a second device,
\* removals, the clock, and the save and load of the roster
KeysL == {1, 2}
DeviceKeysL == {3}
NospamsL == {2}
GreetingsL == {300}
TickL == Env({{}}, MaxSentP, {0}, {{}}, {Direct}, {TRUE})

ProfilesL ==
    {ProfilePacket("NICKNAME", 3, 7), ProfilePacket("STATUSMESSAGE", 260, 5),
     ProfilePacket("USERSTATUS", 1, 1)}

NextL ==
    \/ \E E \in Refusing(MaxSentP), nospam \in NospamsL, length \in GreetingsL :
           AddFriend(E, getaddress(1, nospam), length)
    \/ \E E \in Refusing(MaxSentP), pk \in KeysL : AddFriendNoRequest(E, pk)
    \/ \E E \in Refusing(MaxSentP), pk \in DeviceKeysL, f \in Occupied :
           AddDevice(E, getaddress(pk, 1), f)
    \/ \E E \in Refusing(MaxSentP) : DelFriend(E, 0)
    \/ \E E \in Refusing(MaxSentP), c \in ConnIds : conns[c].pk = 2 /\ conns[c].cb[2] = 0 /\ ConnUp(E, c)
    \/ \E E \in Refusing(MaxSentP), c \in ConnIds :
           conns[c].pk = 2 /\ conns[c].cb[2] = 0 /\ Recv(E, c, Packet("ONLINE", 0))
    \/ \E E \in Refusing(MaxSentP), c \in ConnIds, pkt \in ProfilesL :
           conns[c].pk = 2 /\ conns[c].cb[2] = 0 /\ Recv(E, c, pkt)
    \/ \E E \in TickL : Tick(E)
    \/ now = 0 /\ AdvanceTime(7)
    \/ \E E \in Refusing(MaxSentP), little \in BOOLEAN, size \in SavedFriendSizes :
           Reload(E, little, size)

SpecL == Init /\ [][NextL]_vars

\* ------------------------------------------- section length specification
\* rosters of up to MaxSavedFriends friends, each with one device and one of
\* them with a second device or not
MaxSavedFriends == 70

NextZ ==
    \E size \in SavedFriendSizes, friends \in 1 .. MaxSavedFriends, devices \in 1 .. MaxSavedFriends + 1 :
        /\ devices \in {friends, friends + 1}
        /\ ReloadSized(size, friends, devices)

SpecZ == Init /\ [][NextZ]_vars

\* ---------------------------------------------- own profile specification
\* a friend comes online; the own name, status message, user status and
\* typing state change or are set to what they are; ticks find room in the
\* send queue, or none, or room for a part of the profile
KeysO == {1}
MaxSentO == 5
NamesO == {<<1, 2>>, <<2, 2>>, <<1, 0>>}
StatusMessagesO == {<<1, 2>>, <<1, 0>>}
UserStatusesO == {0, 1, 3}

NextO ==
    \/ \E E \in Refusing(MaxSentO), pk \in KeysO : AddFriendNoRequest(E, pk)
    \/ \E E \in Refusing(MaxSentO), c \in ConnIds : ConnUp(E, c)
    \/ \E E \in Refusing(MaxSentO), c \in ConnIds : Recv(E, c, Packet("ONLINE", 0))
    \/ \E E \in Taking(MaxSentO) : Tick(E)
    \/ \E E \in Refusing(MaxSentO), n \in NamesO : SetName(E, n[1], n[2])
    \/ \E E \in Refusing(MaxSentO), n \in StatusMessagesO : SetStatusMessage(E, n[1], n[2])
    \/ \E E \in Refusing(MaxSentO), status \in UserStatusesO : SetUserStatus(E, status)
    \/ \E E \in Refusing(MaxSentO), f \in Occupied, is_typing \in {0, 1} : SetTyping(E, f, is_typing)

SpecO == Init /\ [][NextO]_vars

\* ------------------------------------------------- own name specification
\* two friends come online and are sent the profile; the own name changes or
\* is set to what it is
KeysI == {1, 2}
MaxSentI == 5
NamesI == {<<1, 2>>, <<2, 2>>, <<1, 0>>, <<1, 129>>}

NextI ==
    \/ \E E \in Refusing(MaxSentI), pk \in KeysI : AddFriendNoRequest(E, pk)
    \/ \E E \in Refusing(MaxSentI), c \in ConnIds : ConnUp(E, c)
    \/ \E E \in Refusing(MaxSentI), c \in ConnIds : Recv(E, c, Packet("ONLINE", 0))
    \/ \E E \in Taking(MaxSentI) : Tick(E)
    \/ \E E \in Refusing(MaxSentI), n \in NamesI : SetName(E, n[1], n[2])

SpecI == Init /\ [][NextI]_vars

\* ------------------------------------------------- inbound specification
\* one friend; the peer offers files into the receiving slots and sends data
\* chunks of every kind, the application accepts or kills
KeysV == {1}
MaxSentV == 2
SizesV == {0, MAX_FILE_DATA_SIZE, 2000}
ChunksV == {0, 629, MAX_FILE_DATA_SIZE}

EnvV == Env({{}, ConnIds}, MaxSentV, {0}, {{}}, {Direct}, {FALSE})

NextV ==
    \/ \E E \in Refusing(MaxSentV), pk \in KeysV : numfriends = 0 /\ AddFriendNoRequest(E, pk)
    \/ \E E \in Refusing(MaxSentV), c \in ConnIds : ConnUp(E, c)
    \/ \E E \in Refusing(MaxSentV), c \in ConnIds :
           /\ \A f \in Occupied : friendlist[f].status # FRIEND_ONLINE
           /\ Recv(E, c, Packet("ONLINE", 0))
    \/ \E E \in Refusing(MaxSentV), c \in ConnIds, p \in PipeIdx, size \in SizesV :
           /\ p > 0 => size = 2000
           /\ Recv(E, c, FilePacket("FILE_SENDREQUEST", 46, 0, p, 0, 0, size))
    \/ \E E \in EnvV, f \in Occupied, p \in PipeIdx,
          control \in {FILECONTROL_ACCEPT, FILECONTROL_KILL} :
           /\ friendlist[f].file_receiving[p].status # FILESTATUS_NONE
           /\ p > 0 => control = FILECONTROL_ACCEPT
           /\ FileControl(E, f, (p + 1) * 65536, control)
    \/ \E E \in Refusing(MaxSentV), c \in ConnIds, p \in PipeIdx, length \in ChunksV :
           /\ p > 0 => length = 629
           /\ Recv(E, c, FilePacket("FILE_DATA", 1 + length, 0, p, 0, 0, 0))

SpecV == Init /\ [][NextV]_vars

\* ------------------------------------------- unknown-transfer specification
\* one friend; the peer offers files, sends controls for slots in either
\* direction that are None or in use, and packets that are too short, too
\* long or out of range
KeysU == {1}
MaxSentU == 2

EnvU == Env({{}, ConnIds}, MaxSentU, {0}, {{}}, {Direct}, {FALSE})
\* the transport takes what it is given, while there is room
WillingU == Env({ConnIds}, MaxSentU, {0}, {{}}, {Direct}, {FALSE})

\* the packets handle_packet drops without looking at a transfer
MalformedU ==
    {FilePacket("FILE_SENDREQUEST", 44, 0, 0, 0, 0, 2000),
     FilePacket("FILE_SENDREQUEST", 46, 0, MAX_CONCURRENT_FILE_PIPES, 0, 0, 2000),
     FilePacket("FILE_SENDREQUEST", 45 + 256, 0, 0, 0, 0, 2000),
     FilePacket("FILE_DATA", 0, 0, 0, 0, 0, 0),
     FilePacket("FILE_DATA", 1 + 629, 0, MAX_CONCURRENT_FILE_PIPES, 0, 0, 0),
     FilePacket("FILE_CONTROL", 2, 0, 0, FILECONTROL_KILL, 0, 0),
     FilePacket("FILE_CONTROL", 3, 0, MAX_CONCURRENT_FILE_PIPES, FILECONTROL_ACCEPT, 0, 0),
     ProfilePacket("USERSTATUS", 1, USERSTATUS_INVALID),
     ProfilePacket("USERSTATUS", 2, 1),
     ProfilePacket("NICKNAME", MAX_NAME_LENGTH + 1, 1),
     ProfilePacket("STATUSMESSAGE", MAX_STATUSMESSAGE_LENGTH + 1, 1),
     ProfilePacket("TYPING", 2, 1),
     Packet("MESSAGE", 0)}

NextU ==
    \/ \E E \in Refusing(MaxSentU), pk \in KeysU : numfriends = 0 /\ AddFriendNoRequest(E, pk)
    \/ \E E \in Refusing(MaxSentU), c \in ConnIds : ConnUp(E, c)
    \/ \E E \in Refusing(MaxSentU), c \in ConnIds :
           /\ \A f \in Occupied : friendlist[f].status # FRIEND_ONLINE
           /\ Recv(E, c, Packet("ONLINE", 0))
    \/ \E E \in WillingU, c \in ConnIds, p \in PipeIdx :
           Recv(E, c, FilePacket("FILE_SENDREQUEST", 46, 0, p, 0, 0, 2000 + p))
    \/ \E E \in EnvU, c \in ConnIds, send_receive \in 0 .. 2, p \in PipeIdx,
          control \in {FILECONTROL_ACCEPT, FILECONTROL_KILL, FILECONTROL_SEEK + 1} :
           /\ send_receive = 2 => E \in WillingU
           /\ Recv(E, c, FilePacket("FILE_CONTROL", 3, send_receive, p, control, 0, 0))
    \/ \E E \in WillingU, c \in ConnIds, pkt \in MalformedU : Recv(E, c, pkt)
    \/ \E E \in WillingU, c \in ConnIds : Recv(E, c, ProfilePacket("USERSTATUS", 1, 1))

SpecU == Init /\ [][NextU]_vars

\* --------------------------------------------------- frame specification
\* two friends of one device each.  Every operation that names a friend is
\* called for the friend with key 1, some also for indices that are no
\* friend, its peer sends packets and its connection goes up and down; the
\* friend with key 2 comes online, is sent a message and offered a file.
\* Friends are added while no friend is Online
KeysW == {1, 2}
MaxSentW == 2
IndicesW == 0 .. MaxFriends

WillingW == Env({ConnIds}, MaxSentW, {MIN_SLOTS_FREE + 1}, {{}}, {Direct}, {FALSE})

InboundW ==
    {Packet("OFFLINE", 0),
     FilePacket("FILE_SENDREQUEST", 46, 0, 0, 0, 0, 2000),
     FilePacket("FILE_CONTROL", 3, 1, 0, FILECONTROL_ACCEPT, 0, 0)}

\* index f is free, out of range or holds the friend with key 1
ActorW(f) == f \in Occupied => friendlist[f].dev_list[0].real_pk = 1

NextW ==
    \/ \E E \in Refusing(MaxSentW), pk \in KeysW :
           /\ \A f \in Occupied : friendlist[f].status = FRIEND_CONFIRMED
           /\ AddFriendNoRequest(E, pk)
    \/ \E E \in Refusing(MaxSentW), c \in ConnIds : ConnUp(E, c)
    \/ \E E \in Refusing(MaxSentW), c \in ConnIds : conns[c].pk = 1 /\ ConnDown(E, c)
    \/ \E E \in Refusing(MaxSentW), c \in ConnIds : Recv(E, c, Packet("ONLINE", 0))
    \/ \E E \in WillingW, c \in ConnIds, pkt \in InboundW :
           conns[c].pk = 1 /\ Recv(E, c, pkt)
    \/ \E E \in WillingW, f \in IndicesW : SendMessage(E, f, 0, 1)
    \/ \E E \in WillingW, f \in FriendIdx :
           /\ f \in Occupied => ~Sends(f)
           /\ NewFileSend(E, f, 2000)
    \/ \E E \in WillingW, f \in Occupied, filenumber \in {0, 65536} :
           ActorW(f) /\ FileControl(E, f, filenumber, FILECONTROL_KILL)
    \/ \E E \in WillingW, f \in Occupied : ActorW(f) /\ FileSeek(E, f, 65536, 100)
    \/ \E E \in WillingW, f \in Occupied :
           ActorW(f) /\ FileData(E, f, 0, 0, MAX_FILE_DATA_SIZE)
    \/ \E E \in WillingW, f \in IndicesW : ActorW(f) /\ DelFriend(E, f)

SpecW == Init /\ [][NextW]_vars

\* -------------------------------------------- connection-kind specification
\* one friend; the transport reports a direct connection, relays only, or
\* neither, differently from one call to the next, while the friend comes
\* online, goes offline and is ticked
KeysT == {1}
MaxSentT == 2

EnvT == Env({{}, ConnIds}, MaxSentT, {0}, {{}}, {Direct, Relayed, Neither}, {FALSE})

NextT ==
    \/ \E E \in EnvT, pk \in KeysT : numfriends = 0 /\ AddFriendNoRequest(E, pk)
    \/ \E E \in EnvT, c \in ConnIds : ConnUp(E, c)
    \/ \E E \in EnvT, c \in ConnIds : ConnDown(E, c)
    \/ \E E \in EnvT, c \in ConnIds : Recv(E, c, Packet("ONLINE", 0))
    \/ \E E \in EnvT, c \in ConnIds : Recv(E, c, Packet("OFFLINE", 0))
    \/ \E E \in EnvT : Tick(E)

SpecT == Init /\ [][NextT]_vars

\* ----------------------------------------------------- count specification
\* one friend and two outgoing files of one chunk: offered, accepted, killed
\* by either side, sent to the end, acknowledged and reaped by the tick, with
\* the connection going down and up in between
KeysG == {1}
MaxSentG == 4
SizesG == {629}

WillingG == Env({ConnIds}, MaxSentG, {MIN_SLOTS_FREE + 1}, {{}}, {Direct}, {FALSE})
\* the tick finds room in the send queue and sends nothing of its own
TickG == Env({{}}, MaxSentG, {MIN_SLOTS_FREE + 1}, {{}}, {Direct}, {FALSE})

NextG ==
    \/ \E E \in Refusing(MaxSentG), pk \in KeysG : numfriends = 0 /\ AddFriendNoRequest(E, pk)
    \/ \E E \in Refusing(MaxSentG), c \in ConnIds : ConnUp(E, c)
    \/ \E E \in Refusing(MaxSentG), c \in ConnIds : ConnDown(E, c)
    \/ \E E \in Refusing(MaxSentG), c \in ConnIds :
           /\ \A f \in Occupied : friendlist[f].status # FRIEND_ONLINE
           /\ Recv(E, c, Packet("ONLINE", 0))
    \/ \E E \in Refusing(MaxSentG), c \in ConnIds : Recv(E, c, Packet("OFFLINE", 0))
    \/ \E E \in WillingG, f \in Occupied, size \in SizesG :
           /\ ~(Sends(f) /\ SendsNext(f))
           /\ NewFileSend(E, f, size)
    \/ \E E \in WillingG, f \in Occupied, filenumber \in PipeIdx :
           FileControl(E, f, filenumber, FILECONTROL_KILL)
    \/ \E E \in WillingG, c \in ConnIds, filenumber \in PipeIdx,
          control \in {FILECONTROL_ACCEPT, FILECONTROL_KILL} :
           Recv(E, c, FilePacket("FILE_CONTROL", 3, 1, filenumber, control, 0, 0))
    \/ \E E \in WillingG, f \in Occupied, filenumber \in PipeIdx :
           /\ friendlist[f].file_sending[filenumber].status = FILESTATUS_TRANSFERRING
           /\ FileData(E, f, filenumber, friendlist[f].file_sending[filenumber].transferred,
                       friendlist[f].file_sending[filenumber].size)
    \/ \E E \in TickG : Tick(E)
    \/ \E c \in ConnIds : Ack(c)

SpecG == Init /\ [][NextG]_vars

\* ------------------------------------------------ crossing specification
\* the two messengers of the handshake specification, both Online, and the
\* file packets between them: A offers files to B, either side kills them, and
\* every packet one side writes arrives at the other, in order
MaxSentX == 4
SizesX == {2000}

\* the packets the call that ended in S wrote to connection c, whole and in order
PacketsOn(S, c) ==
    LET Hit(e) == e.conn = c
        q == SelectSeq(S.out, Hit)
    IN  [n \in 1 .. Len(q) |-> q[n].pkt]

\* the packet the receiver reads from what the sender wrote: the request
\* carries the slot and the size before a file name of one byte, the control
\* its three bytes
FromWire(t) ==
    IF t[1] = "FILE_SENDREQUEST" THEN FilePacket("FILE_SENDREQUEST", 46, 0, t[2], 0, 0, t[3])
    ELSE IF t[1] = "FILE_CONTROL" THEN FilePacket("FILE_CONTROL", 3, t[2], t[3], t[4], 0, 0)
    ELSE Packet(t[1], 0)

BothOnline ==
    /\ HoldsA /\ HoldsB
    /\ friendlist[0].status = FRIEND_ONLINE
    /\ peer.fl[0].status = FRIEND_ONLINE

OfferA(E, filesize) ==
    /\ BothOnline
    /\ LET r == new_filesender(Machine, E, 0, filesize, 1)
       IN  /\ ReturnedA(r.S, E, "new_file_send", 0, filesize, r.ret)
           /\ wire' = [wire EXCEPT !.toB = @ \o PacketsOn(r.S, LinkA)]

KillA(E, filenumber) ==
    /\ BothOnline
    /\ LET r == file_control(Machine, E, 0, filenumber, FILECONTROL_KILL)
       IN  /\ ReturnedA(r.S, E, "file_control", 0, <<filenumber, FILECONTROL_KILL>>, r.ret)
           /\ wire' = [wire EXCEPT !.toB = @ \o PacketsOn(r.S, LinkA)]

KillB(E, filenumber) ==
    /\ BothOnline
    /\ LET r == file_control(PeerMachine, E, 0, filenumber, FILECONTROL_KILL)
       IN  /\ ReturnedB(r.S, "peer_file_control", <<filenumber, FILECONTROL_KILL>>, r.ret)
           /\ wire' = [wire EXCEPT !.toA = @ \o PacketsOn(r.S, LinkB)]

\* the oldest file packet in flight arrives at A / at B
ArriveA(E) ==
    /\ BothOnline
    /\ wire.toA # <<>>
    /\ LET pkt == FromWire(Head(wire.toA))
           r == handle_packet(Machine, E, 0, 0, pkt)
       IN  /\ ReturnedA(r.S, E, "recv_" \o pkt.id, 0, 0, r.ret)
           /\ wire' = [wire EXCEPT !.toA = Tail(@), !.toB = @ \o PacketsOn(r.S, LinkA)]

ArriveB(E) ==
    /\ BothOnline
    /\ wire.toB # <<>>
    /\ LET pkt == FromWire(Head(wire.toB))
           r == handle_packet(PeerMachine, E, 0, 0, pkt)
       IN  /\ ReturnedB(r.S, "peer_recv_" \o pkt.id, 0, r.ret)
           /\ wire' = [wire EXCEPT !.toB = Tail(@), !.toA = @ \o PacketsOn(r.S, LinkB)]

NextX ==
    \/ \E E \in Refusing(MaxSentX) : numfriends = 0 /\ AddFriendNoRequest(E, KeyOfB)
    \/ \E E \in Refusing(MaxSentX) : PeerAddFriend(E, getaddress(KeyOfA, 1), 2)
    \/ \E E \in Taking(MaxSentX) : LinkUpA(E)
    \/ \E E \in Taking(MaxSentX) : LinkUpB(E)
    \/ \E E \in Refusing(MaxSentX) : ~BothOnline /\ DeliverA(E)
    \/ \E E \in Refusing(MaxSentX) : ~BothOnline /\ DeliverB(E)
    \/ \E E \in Taking(MaxSentX), filesize \in SizesX : OfferA(E, filesize)
    \/ \E E \in Taking(MaxSentX), p \in PipeIdx : KillA(E, p)
    \/ \E E \in Taking(MaxSentX), p \in PipeIdx : KillB(E, (p + 1) * 65536)
    \/ \E E \in Taking(MaxSentX) : ArriveA(E)
    \/ \E E \in Taking(MaxSentX) : ArriveB(E)

SpecX == Init /\ [][NextX]_vars

\* ---------------------------------------------------- reply specification
\* one friend with one device whose messages are answered from inside the
\* read_receipt callback
KeysY == {1}
MaxSentY == 6
RepliesY == {1, 2}

NextY ==
    \/ \E E \in Refusing(MaxSentY), pk \in KeysY : numfriends = 0 /\ AddFriendNoRequest(E, pk)
    \/ \E E \in Refusing(MaxSentY), c \in ConnIds : ConnUp(E, c)
    \/ \E E \in Refusing(MaxSentY), c \in ConnIds :
           /\ \A f \in Occupied : friendlist[f].status # FRIEND_ONLINE
           /\ Recv(E, c, Packet("ONLINE", 0))
    \/ \E E \in Taking(MaxSentY), f \in Occupied : SendMessage(E, f, 0, 1)
    \/ \E c \in ConnIds : Ack(c)
    \/ \E E \in Refusing(MaxSentY) : Tick(E)
    \/ \E E \in Taking(MaxSentY), replies \in RepliesY : TickReplying(E, replies)

SpecY == Init /\ [][NextY]_vars

\* ------------------------------------------------- resumed specification
\* one friend; the peer offers a file into receiving slot 0, the application
\* seeks, accepts or kills, and the peer sends data chunks of every kind
KeysJ == {1}
MaxSentJ == 2
SizesJ == {MAX_FILE_DATA_SIZE, 2000}
SeeksJ == {1000, 2000}
ChunksJ == {0, 629, MAX_FILE_DATA_SIZE}

NextJ ==
    \/ \E E \in Refusing(MaxSentJ), pk \in KeysJ : numfriends = 0 /\ AddFriendNoRequest(E, pk)
    \/ \E E \in Refusing(MaxSentJ), c \in ConnIds : ConnUp(E, c)
    \/ \E E \in Refusing(MaxSentJ), c \in ConnIds :
           /\ \A f \in Occupied : friendlist[f].status # FRIEND_ONLINE
           /\ Recv(E, c, Packet("ONLINE", 0))
    \/ \E E \in Refusing(MaxSentJ), c \in ConnIds, size \in SizesJ :
           Recv(E, c, FilePacket("FILE_SENDREQUEST", 46, 0, 0, 0, 0, size))
    \/ \E E \in Taking(MaxSentJ), f \in Occupied, position \in SeeksJ :
           /\ Receives(f)
           /\ FileSeek(E, f, 65536, position)
    \/ \E E \in Taking(MaxSentJ), f \in Occupied,
          control \in {FILECONTROL_ACCEPT, FILECONTROL_KILL} :
           /\ Receives(f)
           /\ FileControl(E, f, 65536, control)
    \/ \E E \in Refusing(MaxSentJ), c \in ConnIds, length \in ChunksJ :
           Recv(E, c, FilePacket("FILE_DATA", 1 + length, 0, 0, 0, 0, 0))

SpecJ == Init /\ [][NextJ]_vars

\* ------------------------------------------------------------------ claims
\* C1: in every reachable state every occupied friend slot is Online exactly
\* when at least one of its devices is Online
C1_OnlineIffDeviceOnline ==
    \A f \in Occupied :
        friendlist[f].status = FRIEND_ONLINE <=> OnlineDevices(friendlist, f) # {}

\* C2: when the last Online device of an Online friend leaves Online, because
\* its connection went down or an OFFLINE packet arrived on it, the friend
\* becomes Confirmed
C2_LastDeviceLeaves ==
    \A f \in Occupied :
        /\ friendlist[f].status = FRIEND_ONLINE
        /\ OnlineDevices(friendlist, f) # {}
        /\ OnlineDevices(friendlist', f) = {}
        /\ last'.op \in {"status_down", "recv_OFFLINE"}
        /\ last'.f = f
        => friendlist'[f].status = FRIEND_CONFIRMED

C2_OnlineToConfirmed == [][C2_LastDeviceLeaves]_vars

FileCallbacks == {"file_reqchunk", "file_filecontrol", "file_sendrequest", "file_filedata"}

\* C3: when the transport reports the connection of a friend down and leaves
\* the friend without an Online device, every file slot of the friend, in
\* both directions, is None, its receipt queue is empty, and the report fired
\* no file callback
C3_DisconnectBreaksTransfers ==
    \A f \in Occupied :
        /\ last.op = "status_down"
        /\ last.f = f
        /\ OnlineDevices(friendlist, f) = {}
        => /\ \A p \in PipeIdx :
                 /\ friendlist[f].file_sending[p].status = FILESTATUS_NONE
                 /\ friendlist[f].file_receiving[p].status = FILESTATUS_NONE
           /\ friendlist[f].receipts = <<>>
           /\ \A n \in 1 .. Len(cbs) : cbs[n][1] \notin FileCallbacks

\* C4: the first tick after the connection of an Online friend's only device
\* came up again, when the transport takes its packets, emits exactly one
\* NICKNAME, one STATUSMESSAGE, one USERSTATUS and one TYPING packet
C4_TickAfterReconnect ==
    \A f \in Occupied : \A E \in Taking(MaxSentR) :
        LET c == friendlist[f].dev_list[0].friendcon_id IN
        /\ last.op = "status_up"
        /\ last.f = f
        /\ friendlist[f].status = FRIEND_ONLINE
        /\ friendlist[f].dev_count = 1
        /\ E.acc = ConnIds
        /\ conns[c].sent + 4 <= E.cap
        /\ Tick(E)
        => \A k \in Kinds : Written([out |-> out'], c, k) = 1

C4_ResyncOnReconnect == [][C4_TickAfterReconnect]_vars

\* C5: the ids of the successful send_message calls to a friend start at 1
\* and each is greater than every earlier one
C5_MessageIdIncreases ==
    \A f \in Occupied :
        LET q == hist.sent[f] IN
        /\ q # <<>> => q[1].id = 1
        /\ \A i, j \in 1 .. Len(q) : i < j => q[i].id < q[j].id

Count(q, x) == Cardinality({n \in 1 .. Len(q) : q[n] = x})

\* C6: for every message sent to a friend that is Online, once the transport
\* has the message's packet as received and a tick has run, read_receipt has
\* fired for the message, and it never fires twice for one message
C6_ReceiptExactlyOnce ==
    \A f \in Occupied : \A n \in 1 .. Len(hist.sent[f]) :
        LET m == hist.sent[f][n] IN
        /\ Count(hist.delivered[f], m.id) <= 1
        /\ (/\ last.op = "tick"
            /\ friendlist[f].status = FRIEND_ONLINE
            /\ cryptpacket_received(Machine, m.conn, m.num) = 0)
           => Count(hist.delivered[f], m.id) = 1

\* C7: the receipts delivered for a friend are a prefix of its successful
\* sends, in the order of the sends, and the receipts still queued are the
\* rest: nothing is delivered past a receipt that still waits
C7_ReceiptPrefixOrder ==
    \A f \in Occupied :
        LET ids == [n \in 1 .. Len(hist.sent[f]) |-> hist.sent[f][n].id]
            d == hist.delivered[f]
            r == friendlist[f].receipts
        IN  /\ Len(d) <= Len(ids)
            /\ d = SubSeq(ids, 1, Len(d))
            /\ [n \in 1 .. Len(r) |-> r[n].msg_id] = SubSeq(ids, Len(d) + 1, Len(ids))
            /\ \A i, j \in 1 .. Len(d) : i < j => d[i] < d[j]

Slots(f) ==
    {friendlist[f].file_sending[p] : p \in PipeIdx} \cup
    {friendlist[f].file_receiving[p] : p \in PipeIdx}

\* C8: every file transfer slot that is not None, in both directions, has
\* 0 <= transferred <= requested <= size
C8_TransferredRequestedSize ==
    \A f \in Occupied : \A ft \in Slots(f) :
        ft.status # FILESTATUS_NONE
        => 0 <= ft.transferred /\ ft.transferred <= ft.requested /\ ft.requested <= ft.size

\* C8 as the code keeps it: a sending slot that is not None has
\* 0 <= transferred <= requested <= size, a receiving slot that is not None
\* has 0 <= transferred <= size and no requested bytes
C8_SendingAndReceiving ==
    \A f \in Occupied : \A p \in PipeIdx :
        LET fs == friendlist[f].file_sending[p]
            fr == friendlist[f].file_receiving[p]
        IN  /\ fs.status # FILESTATUS_NONE
               => 0 <= fs.transferred /\ fs.transferred <= fs.requested /\ fs.requested <= fs.size
            /\ fr.status # FILESTATUS_NONE
               => 0 <= fr.transferred /\ fr.transferred <= fr.size /\ fr.requested = 0

\* C9: the chunk requests of an outgoing transfer of known size start at its
\* starting offset, each starts where the one before ended, each has at most
\* MAX_FILE_DATA_SIZE bytes, and together they cover [start, requested),
\* which is [start, size) once the transfer has finished
C9_ChunksInOrder ==
    \A f \in Occupied : \A p \in PipeIdx :
        LET ft == friendlist[f].file_sending[p]
            q == hist.chunks[f][p]
            start == hist.start[f][p]
        IN  ft.status # FILESTATUS_NONE /\ ft.size # UINT64_MAX
            => /\ q # <<>> => q[1][1] = start
               /\ \A n \in 1 .. (Len(q) - 1) : q[n + 1][1] = q[n][1] + q[n][2]
               /\ \A n \in 1 .. Len(q) : q[n][2] > 0 /\ q[n][2] <= MAX_FILE_DATA_SIZE
               /\ start + SeqSum([n \in 1 .. Len(q) |-> q[n][2]]) = ft.requested
               /\ ft.requested <= ft.size
               /\ ft.status = FILESTATUS_FINISHED => ft.requested = ft.size

Outstanding(f) ==
    SeqSum([n \in 1 .. MAX_CONCURRENT_FILE_PIPES |->
               LET ft == friendlist[f].file_sending[n - 1]
               IN  IF ft.status # FILESTATUS_NONE THEN ft.slots_allocated ELSE 0])

\* C10: after a tick the chunk requests outstanding for an Online friend are
\* at most the free slots the tick saw less MIN_SLOTS_FREE, or 0 if negative
C10_OutstandingWithinBudget ==
    \A f \in Occupied :
        LET free == last.arg[friendlist[f].dev_list[0].friendcon_id]
        IN  last.op = "tick" /\ friendlist[f].status = FRIEND_ONLINE
            => Outstanding(f) <= (IF free < MIN_SLOTS_FREE THEN 0 ELSE free - MIN_SLOTS_FREE)

\* three messages were sent to one friend
C5_ThreeSent == \E f \in Occupied : Len(hist.sent[f]) >= 3

\* a tick delivered the receipt of a message while the next one still waits
C7_DeliveredAndWaiting ==
    \E f \in Occupied :
        /\ last.op = "tick"
        /\ Len(cbs) > 0
        /\ Len(hist.delivered[f]) >= 1
        /\ Len(friendlist[f].receipts) >= 1

\* an outgoing transfer with supplied bytes behind its requested bytes beside
\* an incoming transfer that has taken bytes
C8_BothDirectionsMoving ==
    \E f \in Occupied : \E p \in PipeIdx :
        LET fs == friendlist[f].file_sending[p]
            fr == friendlist[f].file_receiving[p]
        IN  /\ fs.status = FILESTATUS_TRANSFERRING
            /\ 0 < fs.transferred /\ fs.transferred < fs.requested
            /\ fr.status = FILESTATUS_TRANSFERRING
            /\ fr.transferred > 0

\* an outgoing transfer of 2000 bytes finished after two chunk requests
C9_TwoChunksFinished ==
    \E f \in Occupied : \E p \in PipeIdx :
        /\ friendlist[f].file_sending[p].status = FILESTATUS_FINISHED
        /\ friendlist[f].file_sending[p].size = 2000
        /\ Len(hist.chunks[f][p]) = 2
        /\ hist.chunks[f][p][2] = <<MAX_FILE_DATA_SIZE, 629>>
        /\ last.op = "file_data"

\* the sentinels (file_reqchunk with length 0) among callbacks q for pipe p of friend f
Sentinels(q, f, p) ==
    {n \in 1 .. Len(q) : q[n][1] = "file_reqchunk" /\ q[n][2] = f /\ q[n][3] = p /\ q[n][5] = 0}

\* an outgoing transfer that took its last data and whose last packet the peer has
Reapable(f, p) ==
    LET ft == friendlist[f].file_sending[p]
    IN  /\ ft.status = FILESTATUS_FINISHED
        /\ friend_received_packet(Machine, f, ft.last_packet_number) = 0

C11_TickReaps ==
    \A f \in Occupied : \A p \in PipeIdx :
        LET ft == friendlist[f].file_sending[p]
            sent == Sentinels(cbs', f, p)
        IN  /\ (last'.op = "tick" /\ friendlist[f].status = FRIEND_ONLINE /\ Reapable(f, p))
               => /\ Cardinality(sent) = 1
                  /\ \A n \in sent : cbs'[n][4] = ft.transferred
                  /\ friendlist'[f].file_sending[p].status = FILESTATUS_NONE
                  /\ friendlist'[f].num_sending_files =
                        friendlist[f].num_sending_files
                            - Cardinality({x \in PipeIdx : Reapable(f, x)})
            /\ sent # {} => last'.op = "tick" /\ Reapable(f, p)

\* C11: a tick that finds an outgoing transfer Finished with its last data
\* packet acknowledged fires file_reqchunk with length 0 exactly once for it,
\* sets the slot to None and decrements num_sending_files; no step fires the
\* sentinel for a transfer whose last packet is not acknowledged
C11_SentinelAfterAck == [][C11_TickReaps]_vars

\* a tick fired the sentinel of a transfer of 2000 bytes and freed its slot
C11_SentinelFired ==
    \E f \in Occupied : \E p \in PipeIdx :
        /\ last.op = "tick"
        /\ Sentinels(cbs, f, p) # {}
        /\ \E n \in Sentinels(cbs, f, p) : cbs[n][4] = 2000
        /\ friendlist[f].file_sending[p].status = FILESTATUS_NONE

\* the transfer slot a file_data call addressed, before the call
DataSlot(f) == friendlist[f].file_sending[last'.arg[1]]

\* the length of a file_data call passes file_data's tests of it
GoodLength(ft, length) ==
    /\ length <= MAX_FILE_DATA_SIZE
    /\ u64(ft.size - ft.transferred) >= length
    /\ ~(ft.size # UINT64_MAX /\ length # MAX_FILE_DATA_SIZE /\ u64(ft.transferred + length) # ft.size)

C12_FileDataStep ==
    \A f \in Occupied :
        last'.op = "file_data" /\ last'.f = f
        => LET ft == DataSlot(f)
               position == last'.arg[2]
           IN  /\ last'.ret = 0 => position = ft.transferred /\ position < ft.requested
               /\ position # ft.transferred => last'.ret = -7
               /\ last'.ret # 0 => friendlist'[f].file_sending[last'.arg[1]] = ft

\* C12: file_data succeeds only at position = transferred with that offset
\* requested already; a call with another position returns WrongPosition (-7);
\* a failing call leaves the transfer as it was
C12_SequentialData == [][C12_FileDataStep]_vars

C12_FileDataChecked ==
    \A f \in Occupied :
        last'.op = "file_data" /\ last'.f = f
        => LET ft == DataSlot(f)
               position == last'.arg[2]
               length == last'.arg[3]
           IN  /\ last'.ret = 0
                  => position = ft.transferred /\ (position < ft.requested \/ ft.size = 0)
               /\ (/\ friendlist[f].status = FRIEND_ONLINE
                   /\ ft.status = FILESTATUS_TRANSFERRING
                   /\ GoodLength(ft, length)
                   /\ (position # ft.transferred \/ (ft.requested <= position /\ ft.size # 0)))
                  => last'.ret = -7
               /\ (/\ friendlist[f].status = FRIEND_ONLINE
                   /\ ft.status # FILESTATUS_TRANSFERRING)
                  => last'.ret = -4
               /\ (/\ friendlist[f].status = FRIEND_ONLINE
                   /\ ft.status = FILESTATUS_TRANSFERRING
                   /\ ~GoodLength(ft, length))
                  => last'.ret = -5
               /\ last'.ret # 0 => friendlist'[f].file_sending[last'.arg[1]] = ft

\* C12 as the code keeps it: file_data succeeds only at position = transferred
\* with that offset requested already or the transfer of size 0; a call on a
\* Transferring transfer with an acceptable length and another position
\* returns WrongPosition, a call that fails an earlier test returns that
\* test's error whatever its position; a failing call leaves the transfer as
\* it was
C12_SequentialDataChecked == [][C12_FileDataChecked]_vars

\* file_data at a wrong position was turned down on a transfer that has
\* taken data and has more requested
C12_WrongPositionRefused ==
    \E f \in Occupied : \E p \in PipeIdx :
        LET ft == friendlist[f].file_sending[p]
        IN  /\ last.op = "file_data" /\ last.f = f /\ last.ret = -7
            /\ last.arg[1] = p /\ last.arg[2] = ft.transferred + 1
            /\ ft.status = FILESTATUS_TRANSFERRING
            /\ 0 < ft.transferred /\ ft.transferred < ft.requested

\* the transfer slot a file_control or file_seek call addressed, in friend list fl
ControlSlot(fl, f) ==
    ft_of([fl |-> fl], f, send_receive_of(last'.arg[1]), temp_filenum_of(last'.arg[1]))

C13_AcceptStep ==
    \A f \in Occupied :
        (/\ last'.op = "file_control" /\ last'.f = f
         /\ last'.arg[2] = FILECONTROL_ACCEPT
         /\ temp_filenum_of(last'.arg[1]) \in PipeIdx
         /\ ControlSlot(friendlist, f).status = FILESTATUS_TRANSFERRING)
        => LET ft == ControlSlot(friendlist, f)
               after == ControlSlot(friendlist', f)
           IN  /\ last'.ret = 0
                  => /\ BitSet(ft.paused, FILE_PAUSE_US)
                     /\ after = [ft EXCEPT !.paused = @ - FILE_PAUSE_US]
                     /\ BitSet(after.paused, FILE_PAUSE_OTHER) = BitSet(ft.paused, FILE_PAUSE_OTHER)
               /\ ft.paused = FILE_PAUSE_NOT => last'.ret = -7
               /\ ft.paused = FILE_PAUSE_OTHER => last'.ret = -6
               /\ BitSet(ft.paused, FILE_PAUSE_US) => last'.ret \in {0, -8}
               /\ last'.ret \in {-6, -7} => out' = <<>> /\ after = ft

\* C13: file_control(Accept) on a Transferring transfer succeeds only if
\* PauseUs is set, and then clears PauseUs and keeps PauseOther; with no pause
\* flag it returns NotPaused (-7), with only PauseOther NotPausedByUs (-6),
\* and in both error cases sends no packet and leaves the transfer unchanged
C13_AcceptOnTransferring == [][C13_AcceptStep]_vars

\* our Accept resumed an outgoing transfer that the peer keeps paused
C13_ResumedStillPausedByPeer ==
    \E f \in Occupied :
        /\ last.op = "file_control" /\ last.f = f /\ last.ret = 0
        /\ last.arg = <<0, FILECONTROL_ACCEPT>>
        /\ friendlist[f].file_sending[0].status = FILESTATUS_TRANSFERRING
        /\ friendlist[f].file_sending[0].paused = FILE_PAUSE_OTHER

\* the public file numbers of the slots: sending p, receiving (p + 1) << 16
FileNumbers == PipeIdx \cup {(p + 1) * 65536 : p \in PipeIdx}

\* the transport takes a packet for device 0 of friend f under E
TakesPacket(E, f) ==
    LET c == friendlist[f].dev_list[0].friendcon_id
    IN  toxconn_is_connected(Machine, c) /\ c \in E.acc /\ conns[c].sent < E.cap

\* file_control(Accept) by E on the NotAccepted slot filenumber of Online friend f
AcceptsNotAccepted(E, f, filenumber) ==
    /\ last'.op = "file_control"
    /\ last'.f = f
    /\ last'.arg = <<filenumber, FILECONTROL_ACCEPT>>
    /\ friendlist[f].status = FRIEND_ONLINE
    /\ ft_of(Machine, f, send_receive_of(filenumber), temp_filenum_of(filenumber)).status
           = FILESTATUS_NOT_ACCEPTED
    /\ TakesPacket(E, f)
    /\ FileControl(E, f, filenumber, FILECONTROL_ACCEPT)

C14_AcceptStep ==
    \A f \in Occupied : \A E \in EnvC : \A filenumber \in FileNumbers :
        AcceptsNotAccepted(E, f, filenumber)
        => ft_of([fl |-> friendlist'], f, send_receive_of(filenumber),
                 temp_filenum_of(filenumber)).status = FILESTATUS_TRANSFERRING

\* C14: file_control(Accept) on any slot in NotAccepted, the friend Online and
\* the transport taking the control packet, makes the transfer Transferring
C14_AcceptStartsTransfer == [][C14_AcceptStep]_vars

C14_AcceptReceivingStep ==
    \A f \in Occupied : \A E \in EnvC : \A filenumber \in FileNumbers :
        AcceptsNotAccepted(E, f, filenumber)
        => LET sr == send_receive_of(filenumber)
               n == temp_filenum_of(filenumber)
               ft == ft_of(Machine, f, sr, n)
               after == ft_of([fl |-> friendlist'], f, sr, n)
           IN  IF sr = 1
               THEN /\ last'.ret = 0
                    /\ after = [ft EXCEPT !.status = FILESTATUS_TRANSFERRING]
                    /\ Len(out') = 1
               ELSE /\ last'.ret = -6
                    /\ after = ft
                    /\ out' = <<>>

\* C14 as the code keeps it: file_control(Accept) on an incoming slot in
\* NotAccepted, the friend Online and the transport taking the control
\* packet, makes the transfer Transferring; on an outgoing slot in NotAccepted
\* it returns NotPausedByUs (-6), sends no packet and leaves the slot
\* NotAccepted: only the peer's ACCEPT starts an outgoing transfer
C14_AcceptStartsIncoming == [][C14_AcceptReceivingStep]_vars

\* our Accept started an incoming transfer beside an outgoing one that waits
C14_IncomingAccepted ==
    \E f \in Occupied :
        /\ last.op = "file_control" /\ last.f = f /\ last.ret = 0
        /\ last.arg = <<65536, FILECONTROL_ACCEPT>>
        /\ friendlist[f].file_receiving[0].status = FILESTATUS_TRANSFERRING
        /\ friendlist[f].file_sending[0].status = FILESTATUS_NOT_ACCEPTED

C15_KillStep ==
    last'.op \in {"file_control", "recv_FILE_CONTROL"} =>
    \A f \in Occupied : \A filenumber \in FileNumbers :
        LET sr == send_receive_of(filenumber)
            n == temp_filenum_of(filenumber)
            ft == ft_of(Machine, f, sr, n)
            after == ft_of([fl |-> friendlist'], f, sr, n)
            killed == /\ after = [ft EXCEPT !.status = FILESTATUS_NONE]
                      /\ friendlist'[f].num_sending_files =
                            friendlist[f].num_sending_files - (IF sr = 0 THEN 1 ELSE 0)
            kept == /\ after = ft
                    /\ friendlist'[f].num_sending_files = friendlist[f].num_sending_files
        IN  (ft.status # FILESTATUS_NONE /\ friendlist[f].status = FRIEND_ONLINE /\ last'.f = f)
            => /\ (last'.op = "file_control" /\ last'.arg = <<filenumber, FILECONTROL_KILL>>)
                  => \A E \in EnvC :
                         FileControl(E, f, filenumber, FILECONTROL_KILL)
                         => IF TakesPacket(E, f)
                            THEN last'.ret = 0 /\ killed
                            ELSE last'.ret = -8 /\ kept
               \* the peer's receive_send is 0 for the file it sends, our incoming one;
               \* a KILL for an existing transfer is handled without writing a packet,
               \* so the step is the same whatever the transport would have taken
               /\ last'.op = "recv_FILE_CONTROL"
                  => \A E \in Refusing(MaxSentC) : \A c \in ConnIds :
                         (/\ conns[c].cb = <<f, 0>>
                          /\ Recv(E, c, FilePacket("FILE_CONTROL", 3, 1 - sr, n, FILECONTROL_KILL, 0, 0)))
                         => killed

\* C15: a Kill, issued through file_control and taken by the transport or
\* received from the peer for an existing transfer, sets the transfer to None
\* and decrements num_sending_files exactly when the transfer is outgoing; a
\* local Kill whose packet cannot be sent returns SendFailed (-8) and changes
\* neither the transfer nor the counter
C15_KillFreesSlot == [][C15_KillStep]_vars

\* the peer's KILL ended our outgoing transfer while its incoming one goes on
C15_PeerKilledOutgoing ==
    \E f \in Occupied :
        /\ last.op = "recv_FILE_CONTROL" /\ last.f = f
        /\ Len(cbs) = 1 /\ cbs[1] = <<"file_filecontrol", f, 0, FILECONTROL_KILL>>
        /\ friendlist[f].file_sending[0].status = FILESTATUS_NONE
        /\ friendlist[f].num_sending_files = 0
        /\ friendlist[f].file_receiving[0].status = FILESTATUS_TRANSFERRING

\* an inbound SEEK of data_length bytes to position for slot n, aimed at our
\* outgoing (send_receive 1) or incoming (0) transfer, arrives for friend f
SeekArrives(f, send_receive, n, position, data_length) ==
    /\ last'.op = "recv_FILE_CONTROL"
    /\ friendlist[f].status = FRIEND_ONLINE
    /\ \E E \in EnvK, c \in ConnIds :
          /\ conns[c].cb = <<f, 0>>
          /\ Recv(E, c, FilePacket("FILE_CONTROL", data_length, send_receive, n,
                                   FILECONTROL_SEEK, position, 0))

C16_SeekStep ==
    /\ \A f \in Occupied : \A send_receive \in {0, 1} : \A n \in PipeIdx :
       \A position \in SeekPositions : \A data_length \in SeekLengths :
          SeekArrives(f, send_receive, n, position, data_length)
          => LET ft == friendlist[f].file_sending[n]
             IN  IF /\ send_receive = 1
                    /\ data_length - 3 = 8
                    /\ ft.status = FILESTATUS_NOT_ACCEPTED
                    /\ position < ft.size
                 THEN /\ friendlist' = [friendlist EXCEPT ![f].file_sending[n] =
                                           [ft EXCEPT !.transferred = position,
                                                      !.requested = position]]
                      /\ hist'.start[f][n] = position
                 ELSE /\ friendlist' = friendlist
                      /\ hist' = hist
    \* the first chunk asked of the application is the one at the seek position
    /\ \A f \in Occupied : \A n \in PipeIdx :
          (/\ friendlist[f].file_sending[n].status = FILESTATUS_TRANSFERRING
           /\ hist.chunks[f][n] = <<>>
           /\ hist'.chunks[f][n] # <<>>)
          => /\ last'.op = "tick"
             /\ hist'.chunks[f][n][1][1] = hist.start[f][n]

\* C16: an inbound SEEK to p < size for an outgoing transfer in NotAccepted
\* sets transferred = requested = p, and the first file_reqchunk after the
\* peer's Accept is at p; a SEEK with p >= size, with a payload that is not 8
\* bytes, for a transfer not in NotAccepted or aimed at an incoming transfer
\* changes nothing
C16_SeekBeforeAccept == [][C16_SeekStep]_vars

\* the first chunk of a sought transfer of 2000 bytes was requested at the
\* seek position
C16_FirstChunkAtSeek ==
    \E f \in Occupied :
        /\ last.op = "tick"
        /\ hist.start[f][0] = MAX_FILE_DATA_SIZE
        /\ hist.chunks[f][0] = <<<<MAX_FILE_DATA_SIZE, 2000 - MAX_FILE_DATA_SIZE>>>>
        /\ cbs = <<<<"file_reqchunk", f, 0, MAX_FILE_DATA_SIZE, 2000 - MAX_FILE_DATA_SIZE>>>>
        /\ friendlist[f].file_sending[0].transferred = MAX_FILE_DATA_SIZE

\* the incoming slot after a successful seek: requested follows, or stays
Sought(ft, position, both) ==
    IF both THEN [ft EXCEPT !.transferred = position, !.requested = position]
    ELSE [ft EXCEPT !.transferred = position]

\* file_seek(filenumber, position) by E for friend f
SeekStep(f, E, filenumber, position, both) ==
    (/\ last'.op = "file_seek"
     /\ friendlist[f].status = FRIEND_ONLINE
     /\ FileSeek(E, f, filenumber, position))
    => LET n == temp_filenum_of(filenumber)
           ft == friendlist[f].file_receiving[n]
       IN  IF filenumber < 65536 THEN last'.ret = -4 /\ friendlist' = friendlist
           ELSE IF ft.status = FILESTATUS_NONE THEN last'.ret = -3 /\ friendlist' = friendlist
           ELSE IF ft.status # FILESTATUS_NOT_ACCEPTED THEN last'.ret = -5 /\ friendlist' = friendlist
           ELSE IF position >= ft.size THEN last'.ret = -6 /\ friendlist' = friendlist
           ELSE IF ~TakesPacket(E, f) THEN last'.ret = -8 /\ friendlist' = friendlist
           ELSE /\ last'.ret = 0
                /\ friendlist' = [friendlist EXCEPT ![f].file_receiving[n] = Sought(ft, position, both)]

C17_SeekBothStep ==
    \A f \in Occupied : \A E \in EnvK : \A filenumber \in FileNumbers : \A position \in SeekPositions :
        SeekStep(f, E, filenumber, position, TRUE)

\* C17: a successful file_seek to p < size on an incoming transfer in
\* NotAccepted leaves it with transferred = p and requested = p; file_seek
\* returns NotSending (-4) for a sending file number, WrongState (-5) for a
\* transfer not in NotAccepted, BadPosition (-6) for p >= size, SendFailed
\* (-8) when the packet is refused, each time changing nothing
C17_SeekSetsBoth == [][C17_SeekBothStep]_vars

C17_SeekTransferredStep ==
    \A f \in Occupied : \A E \in EnvK : \A filenumber \in FileNumbers : \A position \in SeekPositions :
        SeekStep(f, E, filenumber, position, FALSE)

\* C17 as the code keeps it: a successful file_seek to p < size on an incoming
\* transfer in NotAccepted sets transferred = p and leaves requested as it
\* was; the errors are as in the claim and change nothing
C17_SeekSetsTransferred == [][C17_SeekTransferredStep]_vars

\* file_seek moved an offered incoming transfer of 2000 bytes to the seek position
C17_IncomingSought ==
    \E f \in Occupied :
        /\ last.op = "file_seek" /\ last.f = f /\ last.ret = 0
        /\ last.arg = <<65536, MAX_FILE_DATA_SIZE>>
        /\ friendlist[f].file_receiving[0].status = FILESTATUS_NOT_ACCEPTED
        /\ friendlist[f].file_receiving[0].size = 2000
        /\ friendlist[f].file_receiving[0].transferred = MAX_FILE_DATA_SIZE

C18_RequestStep ==
    \A f \in Occupied : \A E \in TickQ :
        /\ (friendlist[f].status = FRIEND_ADDED /\ last'.op = "tick" /\ Tick(E))
           => IF E.req
              THEN /\ friendlist'[f].status = FRIEND_REQUESTED
                   /\ friendlist'[f].friendrequest_lastsent = now
              ELSE friendlist'[f] = friendlist[f]
        /\ (friendlist[f].status = FRIEND_ADDED /\ friendlist'[f].status = FRIEND_REQUESTED)
           => last'.op = "tick"

\* C18: a tick promotes an Added friend to Requested exactly when the friend
\* request was sent in that tick, and sets request_last_sent to the tick's
\* time; when the sending fails the friend stays Added as it was, so that the
\* next tick tries again
C18_RequestOnTick == [][C18_RequestStep]_vars

\* a tick after time 0 sent the first friend request and stamped it with its time
C18_RequestedAtTickTime ==
    \E f \in Occupied :
        /\ last.op = "tick"
        /\ friendlist[f].status = FRIEND_REQUESTED
        /\ friendlist[f].friendrequest_lastsent = now
        /\ now > 0
        /\ hist.expired[f] = 0

Pow2(k) == 2 ^ k

C20_TimeoutStep ==
    \A f \in Occupied :
        /\ (friendlist[f].status = FRIEND_REQUESTED /\ last'.op = "tick")
           => IF now > friendlist[f].friendrequest_lastsent + friendlist[f].friendrequest_timeout
              THEN /\ friendlist'[f].status = FRIEND_ADDED
                   /\ friendlist'[f].friendrequest_timeout = 2 * friendlist[f].friendrequest_timeout
                   /\ friendlist'[f].friendrequest_lastsent = friendlist[f].friendrequest_lastsent
              ELSE friendlist'[f] = friendlist[f]
        /\ (friendlist[f].status = FRIEND_REQUESTED /\ friendlist'[f].status = FRIEND_ADDED)
           => last'.op = "tick"
        /\ friendlist'[f].status # NOFRIEND
           => friendlist'[f].friendrequest_timeout >= friendlist[f].friendrequest_timeout
        /\ friendlist'[f].status \in {FRIEND_ADDED, FRIEND_REQUESTED}
           => friendlist'[f].friendrequest_timeout
                  = FRIENDREQUEST_TIMEOUT * Pow2(hist'.expired[f])

\* C20: a tick demotes a Requested friend to Added exactly when the tick's time
\* is greater than request_last_sent + request_timeout, and the demotion
\* doubles request_timeout; a pending friend demoted k times has the timeout
\* FRIENDREQUEST_TIMEOUT * 2^k, and the timeout never shrinks
C20_RequestBackoff == [][C20_TimeoutStep]_vars

\* the friend request timed out a second time, after twice the first wait
C20_SecondTimeout ==
    \E f \in Occupied :
        /\ last.op = "tick"
        /\ friendlist[f].status = FRIEND_ADDED
        /\ hist.expired[f] = 2
        /\ friendlist[f].friendrequest_timeout = 4 * FRIENDREQUEST_TIMEOUT

\* the transport takes a packet written to connection c of a messenger whose
\* connections are co
Takes(E, co, c) == c \in E.acc /\ co[c].sent < E.cap

WroteOnline(c) == \E n \in 1 .. Len(out') : out'[n].conn = c /\ out'[n].pkt = <<"ONLINE">>

C19_HandshakeStep ==
    /\ wire'.gotA > 0 => friendlist'[0].status = FRIEND_ONLINE
    /\ wire'.gotB > 0 => peer'.fl[0].status = FRIEND_ONLINE
    /\ (last'.op = "recv_ONLINE" /\ friendlist[0].status # FRIEND_ONLINE)
       => /\ friendlist'[0].status = FRIEND_ONLINE
          /\ \A E \in EnvH :
                 LET c == friendlist[0].dev_list[last'.arg].friendcon_id
                 IN  (Takes(E, conns, c) /\ (DeliverA(E) \/ Recv(E, c, Packet("ONLINE", 0))))
                     => WroteOnline(c)
    /\ (last'.op = "peer_recv_ONLINE" /\ peer.fl[0].status # FRIEND_ONLINE)
       => /\ peer'.fl[0].status = FRIEND_ONLINE
          /\ \A E \in EnvH :
                 (Takes(E, peer.co, LinkB) /\ DeliverB(E))
                 => /\ Len(wire'.toA) > Len(wire.toA)
                    /\ wire'.toA[Len(wire'.toA)] = "ONLINE"

\* C19: with A holding B by add_friend_no_request and B holding A by add_friend
\* (Added or Requested), a messenger that has received an ONLINE packet of the
\* other holds it as Online, so that both are Online once the connection is up
\* on both sides and an ONLINE packet has arrived at each; the first ONLINE
\* packet received on any device of a friend that is not Online makes the
\* friend Online, and an ONLINE packet is written back on that device's
\* connection when the transport takes it
C19_Handshake == [][C19_HandshakeStep]_vars

\* A and B hold each other as Online after exchanging ONLINE packets over the
\* connection between them
C19_BothOnline ==
    /\ HoldsA /\ HoldsB
    /\ friendlist[0].dev_count = 1
    /\ conns[LinkA].connected /\ peer.co[LinkB].connected
    /\ wire.gotA > 0 /\ wire.gotB > 0
    /\ friendlist[0].status = FRIEND_ONLINE
    /\ peer.fl[0].status = FRIEND_ONLINE

\* add_friend(pk, nospam) by E where friend fid holds pk already
AddsKnownKey(E, pk, nospam, fid) ==
    /\ last'.op = "add_friend" /\ last'.arg = pk
    /\ fid = getfriend_id(Machine, pk) /\ fid # -1
    /\ AddFriend(E, getaddress(pk, nospam), 2)

NospamSet(fid, nospam) ==
    /\ last'.ret = FAERR_SETNEWNOSPAM
    /\ friendlist' = [friendlist EXCEPT ![fid].friendrequest_nospam = nospam]
    /\ numfriends' = numfriends /\ conns' = conns

RosterKept == friendlist' = friendlist /\ numfriends' = numfriends /\ conns' = conns

C21_AnyStatusStep ==
    \A E \in Refusing(MaxSentP), pk \in KeysN, nospam \in NospamsN, fid \in FriendIdx :
        AddsKnownKey(E, pk, nospam, fid)
        => IF friendlist[fid].friendrequest_nospam # nospam
           THEN NospamSet(fid, nospam)
           ELSE last'.ret = FAERR_ALREADYSENT /\ RosterKept

\* C21: add_friend with a key an existing friend holds and a nospam that
\* differs from the stored one stores the new nospam, returns SetNewNospam and
\* creates no slot, whatever the status of that friend; with an equal nospam
\* it returns AlreadySent and changes nothing
C21_SetNewNospam == [][C21_AnyStatusStep]_vars

C21_PendingStep ==
    \A E \in Refusing(MaxSentP), pk \in KeysN, nospam \in NospamsN, fid \in FriendIdx :
        AddsKnownKey(E, pk, nospam, fid)
        => IF /\ friendlist[fid].status < FRIEND_CONFIRMED
              /\ friendlist[fid].friendrequest_nospam # nospam
           THEN NospamSet(fid, nospam)
           ELSE last'.ret = FAERR_ALREADYSENT /\ RosterKept

\* C21 as the code keeps it: the new nospam is stored and SetNewNospam returned
\* only for a friend that is still pending (Added or Requested); for a friend
\* that is Confirmed or Online, and for an equal nospam, add_friend returns
\* AlreadySent and changes nothing; no slot is created in either case
C21_SetNewNospamWhilePending == [][C21_PendingStep]_vars

\* a Requested friend was given a new nospam
C21_NospamReplaced ==
    \E f \in Occupied :
        /\ last.op = "add_friend" /\ last.ret = FAERR_SETNEWNOSPAM
        /\ friendlist[f].status = FRIEND_REQUESTED
        /\ friendlist[f].dev_list[0].real_pk = last.arg
        /\ friendlist[f].friendrequest_nospam = 2

\* the rows of the roster: who is a friend, in which state, with which devices
Rows(fl, nf) ==
    [f \in FriendIdx |->
        IF f < nf /\ fl[f].status # NOFRIEND
        THEN [status |-> fl[f].status,
              keys |-> [d \in 0 .. (fl[f].dev_count - 1) |-> fl[f].dev_list[d].real_pk]]
        ELSE [status |-> NOFRIEND, keys |-> <<>>]]

PrimaryKeysDiffer(fl, nf) ==
    \A i, j \in 0 .. (nf - 1) :
        (i # j /\ fl[i].status # NOFRIEND /\ fl[j].status # NOFRIEND)
        => fl[i].dev_list[0].real_pk # fl[j].dev_list[0].real_pk

C22_RosterStep ==
    /\ PrimaryKeysDiffer(friendlist', numfriends')
    /\ (/\ last'.op \in {"add_friend", "add_friend_no_request", "add_device"}
        /\ getfriend_id(Machine, last'.arg) # -1)
       => /\ last'.ret < 0
          /\ Rows(friendlist', numfriends') = Rows(friendlist, numfriends)
          /\ numfriends' = numfriends
          /\ conns' = conns

FirstFree ==
    LET free == {i \in 0 .. numfriends : i = numfriends \/ friendlist[i].status = NOFRIEND}
    IN  CHOOSE i \in free : \A j \in free : i <= j

C23_SlotStep ==
    /\ last'.op = "remove_friend"
       => IF last'.arg \in Occupied
          THEN last'.ret = 0 /\ friendlist'[last'.arg].status = NOFRIEND
          ELSE /\ last'.ret = -1
               /\ friendlist' = friendlist /\ numfriends' = numfriends /\ conns' = conns
               /\ out' = <<>> /\ cbs' = <<>>
    /\ (last'.op \in {"add_friend", "add_friend_no_request"} /\ last'.ret >= 0)
       => /\ last'.ret = FirstFree
          /\ friendlist'[last'.ret].status # NOFRIEND
          /\ numfriends' = IF FirstFree = numfriends THEN numfriends + 1 ELSE numfriends

\* C23: remove_friend on a friend succeeds and frees its index; on a free or
\* out-of-range index it returns Invalid (-1) and changes nothing; a successful
\* add_friend or add_friend_no_request returns the smallest free index and the
\* table grows only when the free index is the one past its end
C23_SlotReuse == [][C23_SlotStep]_vars

\* index 0 was freed by a removal and given to a new friend, before friend 1
C23_IndexReused ==
    /\ last.op \in {"add_friend", "add_friend_no_request"}
    /\ last.ret = 0
    /\ numfriends = 2
    /\ friendlist[0].status # NOFRIEND /\ friendlist[1].status # NOFRIEND

\* the occupied rows in the order of their indices
RECURSIVE OccupiedFrom(_, _, _)
OccupiedFrom(fl, nf, i) ==
    IF i >= nf THEN <<>>
    ELSE (IF fl[i].status # NOFRIEND THEN <<fl[i]>> ELSE <<>>) \o OccupiedFrom(fl, nf, i + 1)

\* the first length bytes of a buffer
Text(bytes, length) == IF length = 0 THEN <<>> ELSE <<bytes, length>>

\* friend b is what the save file keeps of friend a
FriendKept(a, b) ==
    /\ a.dev_list[0].real_pk = b.dev_list[0].real_pk
    /\ a.dev_count = b.dev_count
    /\ \A d \in 0 .. a.dev_count - 1 : a.dev_list[d].real_pk = b.dev_list[d].real_pk
    /\ IF a.status >= FRIEND_CONFIRMED
       THEN /\ b.status = FRIEND_CONFIRMED
            /\ Text(a.name, a.name_length) = Text(b.name, b.name_length)
            /\ Text(a.statusmessage, a.statusmessage_length)
                   = Text(b.statusmessage, b.statusmessage_length)
            /\ a.userstatus = b.userstatus
            /\ a.last_seen_time = b.last_seen_time
       ELSE /\ b.status = FRIEND_ADDED
            /\ a.info_size = b.info_size
            /\ a.friendrequest_nospam = b.friendrequest_nospam

C24_ReloadStep ==
    last'.op = "save_load"
    => LET before == OccupiedFrom(friendlist, numfriends, 0)
           after == OccupiedFrom(friendlist', numfriends', 0)
       IN  /\ last'.ret = Len(before)
           /\ Len(after) = Len(before)
           /\ \A k \in 1 .. Len(before) : FriendKept(before[k], after[k])

\* the friends section of a roster that the table of the model holds loads to
\* the same friends in the same order, with their keys, devices and saved fields
C24_SmallRosterKept == [][C24_ReloadStep]_vars

\* a friend with a name, a last-seen time and two devices, followed by a second
\* friend, after the load
C24_TwoDevicesThenFriend ==
    /\ last.op = "save_load"
    /\ friendlist[0].dev_count = 2
    /\ friendlist[0].name_length = 3
    /\ friendlist[0].last_seen_time = 7
    /\ friendlist[1].status # NOFRIEND

\* C24: the saved friends section of every roster loads again: the load returns
\* the number of friends that were saved
C24_SavedRosterLoads ==
    last.op = "save_load_sized" => last.ret = last.f

C25_SetNameStep ==
    (last'.op = "set_name" /\ last'.arg[2] <= MAX_NAME_LENGTH)
    => /\ last'.ret = 0
       /\ IF Text(own.name, own.name_length) = Text(last'.arg[1], last'.arg[2])
          THEN friendlist' = friendlist /\ own' = own /\ out' = <<>>
          ELSE /\ \A f \in Occupied : friendlist'[f].name_sent = 0
               /\ Text(own'.name, own'.name_length) = Text(last'.arg[1], last'.arg[2])

\* C25: setting the own name to the value it has returns 0 and leaves the
\* name_sent flag of every friend (and the rest of the roster) as it was; setting
\* it to another value returns 0 and clears name_sent of every friend
C25_SameNameNotResent == [][C25_SetNameStep]_vars

\* the name was set to its value after both friends had been sent it
C25_SameNameKept ==
    /\ last.op = "set_name"
    /\ last.ret = 0
    /\ own.name_length = 2
    /\ Occupied = {0, 1}
    /\ \A f \in Occupied : friendlist[f].name_sent = 1

\* the profile packets in the order of do_friends, each with its flag and the
\* call that changes what it carries
ProfileOrder ==
    <<[kind |-> "NICKNAME", flag |-> "name_sent", op |-> "set_name"],
      [kind |-> "STATUSMESSAGE", flag |-> "statusmessage_sent", op |-> "set_status_message"],
      [kind |-> "USERSTATUS", flag |-> "userstatus_sent", op |-> "set_user_status"],
      [kind |-> "TYPING", flag |-> "user_istyping_sent", op |-> "set_typing"]>>

\* the kinds of the profile packets in the order in which the call wrote them to c
ProfileWritten(o, c) ==
    LET Hit(e) == e.conn = c /\ e.pkt[1] \in Kinds
        q == SelectSeq(o, Hit)
    IN  [n \in 1 .. Len(q) |-> q[n].pkt[1]]

C30_ProfileStep ==
    \A f \in Occupied :
        LET c == friendlist[f].dev_list[0].friendcon_id
            w == ProfileWritten(out', c)
            Sent(p) == friendlist[f][p.flag] = 0 /\ friendlist'[f][p.flag] = 1
            due == SelectSeq(ProfileOrder, Sent)
        IN  /\ w = [n \in 1 .. Len(due) |-> due[n].kind]
            /\ w # <<>> => last'.op = "tick" /\ friendlist[f].status = FRIEND_ONLINE
            /\ \A n \in 1 .. 4 :
                   (friendlist[f][ProfileOrder[n].flag] = 1
                    /\ friendlist'[f][ProfileOrder[n].flag] = 0)
                   => \/ last'.op = ProfileOrder[n].op
                      \/ /\ friendlist[f].status # FRIEND_ONLINE
                         /\ friendlist'[f].status = FRIEND_ONLINE

\* C30: a tick writes the profile packets of an Online friend in the order
\* name, status message, user status, typing, each at most once and only when
\* its flag is unset; a flag becomes set exactly when its packet was written,
\* so a packet that was not written is tried again; a set flag is cleared only
\* by the call that changes that part of the profile or when the friend comes
\* Online, and no other call writes a profile packet
C30_ProfileResync == [][C30_ProfileStep]_vars

\* a tick that had room for the name only: the typing packet is still due
C30_PartOfProfileSent ==
    /\ last.op = "tick"
    /\ 0 \in Occupied
    /\ ProfileWritten(out, friendlist[0].dev_list[0].friendcon_id) = <<"NICKNAME">>
    /\ friendlist[0].name_sent = 1
    /\ friendlist[0].user_istyping_sent = 0

C26_SendStep ==
    last'.op = "send_message"
    => LET f == last'.f
           wellformed == last'.ret # -5 /\ last'.ret # -2
       IN  /\ last'.ret < 0
              => /\ friendlist' = friendlist
                 /\ conns' = conns
                 /\ out' = <<>>
                 /\ cbs' = <<>>
           /\ (f \in Occupied /\ wellformed /\ friendlist[f].status # FRIEND_ONLINE)
              => last'.ret = -3
           /\ (f \in Occupied /\ wellformed /\ friendlist[f].status = FRIEND_ONLINE)
              => /\ last'.ret \in {0, -4}
                 /\ last'.ret = -4 <=> out' = <<>>
           /\ last'.ret = 0
              => LET before == friendlist[f].receipts
                     after == friendlist'[f].receipts
                 IN  /\ friendlist'[f].message_id = friendlist[f].message_id + 1
                     /\ Len(after) = Len(before) + 1
                     /\ SubSeq(after, 1, Len(before)) = before
                     /\ after[Len(after)].msg_id = friendlist'[f].message_id

\* C26: send_message that returns an error changes nothing: it returns -3 for
\* a friend that is not Online and -4 exactly when no device of the Online
\* friend took the packet, and the message_id counter and the receipt queue
\* (with the rest of the roster and the connections) are as before; on success
\* the counter is one higher and one receipt with that id is appended
C26_ErrorsChangeNothing == [][C26_SendStep]_vars

\* the send queue was full for a friend that has a receipt waiting
C26_QueueFullWithReceipt ==
    /\ last.op = "send_message"
    /\ last.ret = -4
    /\ last.f \in Occupied
    /\ friendlist[last.f].status = FRIEND_ONLINE
    /\ Len(friendlist[last.f].receipts) >= 1

\* the zero-length file_recv_data callbacks among the callbacks of a step
ZeroLengthCallbacks(q) ==
    {i \in 1 .. Len(q) : q[i][1] = "file_filedata" /\ q[i][5] = 0}

\* a FILE_DATA packet with a chunk of `length` bytes arrives on connection c
\* for the Transferring receiving slot p of the friend of c
C29_DataStep(c, p, length) ==
    /\ last'.op = "recv_FILE_DATA"
    /\ conns[c].cb # NoCb
    /\ friendlist[conns[c].cb[1]].status = FRIEND_ONLINE
    /\ friendlist[conns[c].cb[1]].file_receiving[p].status = FILESTATUS_TRANSFERRING
    /\ Recv(CHOOSE E \in Refusing(MaxSentV) : TRUE, c,
            FilePacket("FILE_DATA", 1 + length, 0, p, 0, 0, 0))

C29_ChunkReceived ==
    \A c \in ConnIds, p \in PipeIdx, length \in ChunksV :
        C29_DataStep(c, p, length) =>
            LET f == conns[c].cb[1]
                ft == friendlist[f].file_receiving[p]
                given == IF ft.transferred + length > ft.size
                         THEN ft.size - ft.transferred ELSE length
                terminates == \/ ft.transferred + length >= ft.size
                              \/ length < MAX_FILE_DATA_SIZE
                              \/ length = 0
                data == <<"file_filedata", f, (p + 1) * 65536, ft.transferred, given>>
                end == <<"file_filedata", f, (p + 1) * 65536, ft.transferred + given, 0>>
            IN  IF terminates
                THEN /\ Cardinality(ZeroLengthCallbacks(cbs')) = 1
                     /\ cbs' = IF given > 0 THEN <<data, end>> ELSE <<end>>
                     /\ friendlist'[f].file_receiving[p].status = FILESTATUS_NONE
                ELSE /\ ZeroLengthCallbacks(cbs') = {}
                     /\ cbs' = <<data>>
                     /\ friendlist'[f].file_receiving[p].status = FILESTATUS_TRANSFERRING
                     /\ friendlist'[f].file_receiving[p].transferred
                            = ft.transferred + MAX_FILE_DATA_SIZE

\* C29: an inbound FILE_DATA chunk for a Transferring receiving slot that
\* ends the stream (the received bytes reach the size, the chunk is shorter
\* than MAX_FILE_DATA_SIZE, or it is empty) delivers exactly one zero-length
\* file_recv_data callback, after the data callback when the chunk carried
\* data, and the slot becomes None; a full chunk that does not reach the size
\* delivers the data callback only and the slot stays Transferring
C29_StreamEnd == [][C29_ChunkReceived]_vars

\* a clamped full chunk ended a transfer: data callback, then the empty one
C29_ClampedChunkEnds ==
    /\ last.op = "recv_FILE_DATA"
    /\ Len(cbs) = 2
    /\ cbs[1][4] = MAX_FILE_DATA_SIZE
    /\ cbs[1][5] = 2000 - MAX_FILE_DATA_SIZE
    /\ cbs[2][5] = 0
    /\ friendlist[last.f].file_receiving[0].status = FILESTATUS_NONE

\* the step changed no friend and no connection state, fired no callback and
\* wrote no packet
DroppedSilently ==
    /\ friendlist' = friendlist
    /\ numfriends' = numfriends
    /\ conns' = conns
    /\ cbs' = <<>>
    /\ out' = <<>>

\* the slots of the Online friend of connection c that are None, as the peer
\* names them: send_receive 0 for our receiving slots, 1 for our sending ones
NoneSlots(c) ==
    LET f == conns[c].cb[1]
    IN  IF conns[c].cb = NoCb \/ friendlist[f].status # FRIEND_ONLINE THEN {}
        ELSE {<<0, p>> : p \in {q \in PipeIdx :
                                  friendlist[f].file_receiving[q].status = FILESTATUS_NONE}}
             \cup {<<1, p>> : p \in {q \in PipeIdx :
                                     friendlist[f].file_sending[q].status = FILESTATUS_NONE}}

\* every FILE_CONTROL packet of three bytes that arrives for a None slot of
\* an Online friend has the outcome Answered
C28_UnknownTransferStep(Answered(_, _, _, _, _)) ==
    last'.op = "recv_FILE_CONTROL" =>
    \A c \in ConnIds : \A slot \in NoneSlots(c) :
        \A E \in EnvU,
           control \in {FILECONTROL_ACCEPT, FILECONTROL_KILL, FILECONTROL_SEEK + 1} :
            Recv(E, c, FilePacket("FILE_CONTROL", 3, slot[1], slot[2], control, 0, 0))
            => Answered(E, conns[c].cb[1], slot[1], slot[2], control)

\* the only packet of the step is a KILL for slot p in the peer's direction
KillWritten(f, send_receive, p) ==
    /\ Len(out') = 1
    /\ out'[1].pkt = <<"FILE_CONTROL", 1 - send_receive, p, FILECONTROL_KILL, 0>>
    /\ out'[1].conn = friendlist[f].dev_list[0].friendcon_id

KillAttempted(E, f, send_receive, p, control) ==
    /\ friendlist' = friendlist
    /\ numfriends' = numfriends
    /\ cbs' = <<>>
    /\ IF control <= FILECONTROL_SEEK /\ TakesPacket(E, f)
       THEN KillWritten(f, send_receive, p)
       ELSE out' = <<>> /\ conns' = conns

C28_UnknownTransferAnswered == C28_UnknownTransferStep(KillAttempted)

\* a FILE_SENDREQUEST for receiving slot p, which is in use
C28_OccupiedSlotStep(E, c, p) ==
    /\ last'.op = "recv_FILE_SENDREQUEST"
    /\ conns[c].cb # NoCb
    /\ friendlist[conns[c].cb[1]].status = FRIEND_ONLINE
    /\ friendlist[conns[c].cb[1]].file_receiving[p].status # FILESTATUS_NONE
    /\ Recv(E, c, FilePacket("FILE_SENDREQUEST", 46, 0, p, 0, 0, 2000 + p))

C28_MalformedStep(E, c) ==
    /\ conns[c].cb # NoCb
    /\ friendlist[conns[c].cb[1]].status = FRIEND_ONLINE
    /\ \E pkt \in MalformedU : last'.op = "recv_" \o pkt.id /\ Recv(E, c, pkt)

C28_InboundStep ==
    /\ C28_UnknownTransferAnswered
    /\ \A E \in WillingU, c \in ConnIds :
          /\ C28_MalformedStep(E, c) => DroppedSilently
          /\ \A p \in PipeIdx : C28_OccupiedSlotStep(E, c, p) => DroppedSilently
          /\ \A p \in PipeIdx, control \in {FILECONTROL_ACCEPT, FILECONTROL_KILL} :
                (/\ last'.op = "recv_FILE_CONTROL"
                 /\ conns[c].cb # NoCb
                 /\ friendlist[conns[c].cb[1]].status = FRIEND_ONLINE
                 /\ Recv(E, c, FilePacket("FILE_CONTROL", 3, 2, p, control, 0, 0)))
                => DroppedSilently

\* C28: an inbound FILE_CONTROL packet of at least three bytes, with
\* send_receive 0 or 1 and a slot index below MAX_CONCURRENT_FILE_PIPES, that
\* names a slot whose state is None changes no friend, fires no callback and,
\* when its control type is at most FILECONTROL_SEEK, has one FILECONTROL_KILL
\* for the same slot written to the connection of device 0, which leaves no
\* trace when the transport does not take it; with a control type above
\* FILECONTROL_SEEK nothing is written.  Packets with a bad length, a slot
\* index out of range, send_receive above 1, an invalid user status, and a
\* FILE_SENDREQUEST for a slot in use change nothing, fire no callback and
\* write nothing
C28_MalformedInbound == [][C28_InboundStep]_vars

\* the statement without the transport and the control type: every control
\* for a None slot is answered by exactly one KILL
OneKill(E, f, send_receive, p, control) ==
    /\ friendlist' = friendlist
    /\ cbs' = <<>>
    /\ KillWritten(f, send_receive, p)

C28_AlwaysOneKill == C28_UnknownTransferStep(OneKill)

C28_UnknownTransferAlwaysKilled == [][C28_AlwaysOneKill]_vars

\* the peer accepted a transfer we never offered and the KILL went out
C28_KillSentBack ==
    /\ last.op = "recv_FILE_CONTROL"
    /\ cbs = <<>>
    /\ Len(out) = 1
    /\ out[1].pkt = <<"FILE_CONTROL", 0, 1, FILECONTROL_KILL, 0>>
    /\ \A f \in Occupied : \A p \in PipeIdx :
          /\ friendlist[f].file_sending[p].status = FILESTATUS_NONE
          /\ friendlist[f].file_receiving[p].status = FILESTATUS_NONE

\* the operations that name one friend: calls of the application, packets and
\* status reports of the transport
PerFriendOps ==
    {"send_message", "new_file_send", "file_control", "file_seek", "file_data",
     "remove_friend", "status_up", "status_down"}
    \cup {"recv_ONLINE"} \cup {"recv_" \o pkt.id : pkt \in InboundW}

C27_OtherFriendsStep ==
    last'.op \in PerFriendOps =>
    \A j \in Occupied :
        j # last'.f =>
            /\ j < numfriends'
            /\ friendlist'[j] = friendlist[j]
            /\ \A d \in 0 .. (friendlist[j].dev_count - 1) :
                  LET c == friendlist[j].dev_list[d].friendcon_id
                  IN  c \in ConnIds => conns'[c] = conns[c]

\* C27: an operation that names friend i (send_message, new_file_send,
\* file_control, file_seek, file_data, remove_friend, an inbound packet or a
\* status report of the transport for i), whether it succeeds or fails,
\* leaves every other friend j at its index with its status, devices,
\* connections, message_id, receipts and file slots unchanged
C27_OtherFriendsUntouched == [][C27_OtherFriendsStep]_vars

\* friend 0 was removed while friend 1 was Online with a receipt and a file
\* on offer
C27_RemovedBesideBusyFriend ==
    /\ last.op = "remove_friend" /\ last.f = 0 /\ last.ret = 0
    /\ numfriends = 2
    /\ friendlist[0].status = NOFRIEND
    /\ friendlist[1].status = FRIEND_ONLINE
    /\ Len(friendlist[1].receipts) >= 1
    /\ friendlist[1].file_sending[0].status = FILESTATUS_NOT_ACCEPTED

\* the connection_status callbacks for friend f among the callbacks of a step
KindCallbacks(q, f) == SelectSeq(q, LAMBDA x : x[1] = "connection_status" /\ x[2] = f)

\* the transport reports neither a direct connection nor a relay
ReportsNeither(E) == \A c \in ConnIds : E.stat[c] = Neither

C31_KindStep ==
    \A f \in FriendIdx :
        LET q == KindCallbacks(cbs', f)
            memo == friendlist[f].last_connection_udp_tcp
        IN  /\ \A k \in 1 .. Len(q) : q[k][3] # (IF k = 1 THEN memo ELSE q[k - 1][3])
            /\ q # <<>> => friendlist'[f].last_connection_udp_tcp = q[Len(q)][3]
            /\ (q = <<>> /\ f \in Occupied /\ last'.op # "remove_friend")
                  => friendlist'[f].last_connection_udp_tcp = memo
            /\ (/\ f \in Occupied
                /\ friendlist[f].status = FRIEND_ONLINE
                /\ friendlist'[f].status = FRIEND_ONLINE
                /\ memo = CONNECTION_UDP
                /\ \E E \in EnvT :
                      /\ ReportsNeither(E)
                      /\ \/ last'.op = "tick" /\ Tick(E)
                         \/ /\ last'.op = "recv_ONLINE"
                            /\ \E c \in ConnIds : Recv(E, c, Packet("ONLINE", 0)))
                  => q = <<>>

\* C31: connection_status is called for a friend only with a kind that
\* differs from the friend's last_connection_udp_tcp, which then takes that
\* kind and changes in no other way while the friend exists, so that two
\* consecutive calls for a friend never carry the same kind; when the
\* transport reports neither a direct connection nor relays for an Online
\* friend whose remembered kind is Udp, no callback is made
C31_StatusOnKindChange == [][C31_KindStep]_vars

\* a tick found the Online friend on relays after a direct connection
C31_UdpBecameTcp ==
    /\ last.op = "tick"
    /\ cbs = <<<<"connection_status", 0, CONNECTION_TCP>>>>
    /\ friendlist[0].status = FRIEND_ONLINE
    /\ friendlist[0].last_connection_udp_tcp = CONNECTION_TCP

\* the file_req_chunk callbacks of a step that ask for data
ChunkRequests(q) == {k \in 1 .. Len(q) : q[k][1] = "file_reqchunk" /\ q[k][5] > 0}

C32_RequestStep ==
    \A k \in ChunkRequests(cbs') :
        LET f == cbs'[k][2]
            ft == friendlist[f].file_sending[cbs'[k][3]]
            after == friendlist'[f].file_sending[cbs'[k][3]]
        IN  /\ last'.op = "tick"
            /\ ft.status = FILESTATUS_TRANSFERRING
            /\ ft.paused = FILE_PAUSE_NOT
            /\ after.status = FILESTATUS_TRANSFERRING
            /\ after.paused = FILE_PAUSE_NOT

\* C32: file_req_chunk with a length above 0 is called for an outgoing
\* transfer only in a tick that finds and leaves it Transferring with neither
\* pause flag set; a transfer paused by both sides is therefore asked for
\* chunks again only after the local Accept cleared PauseUs and the peer's
\* Accept cleared PauseOther
C32_NoRequestWhilePaused == [][C32_RequestStep]_vars

\* a tick with room in the send queue asked for nothing: the transfer with
\* data left to request is paused by both sides
C32_BothPausedTickSilent ==
    /\ last.op = "tick"
    /\ cbs = <<>>
    /\ \E f \in Occupied :
          /\ friendlist[f].status = FRIEND_ONLINE
          /\ friendlist[f].file_sending[0].status = FILESTATUS_TRANSFERRING
          /\ friendlist[f].file_sending[0].paused = FILE_PAUSE_US + FILE_PAUSE_OTHER
          /\ friendlist[f].file_sending[0].requested < friendlist[f].file_sending[0].size

\* the transport connections in use
AliveConns(co) == {c \in ConnIds : co[c].alive}

C33_PendingStep ==
    \A f \in Occupied :
        (/\ last'.op = "add_device"
         /\ last'.f = f
         /\ friendlist[f].status \in {FRIEND_ADDED, FRIEND_REQUESTED})
        => /\ last'.ret < 0
           /\ friendlist'[f].dev_count = friendlist[f].dev_count
           /\ friendlist'[f].dev_list = friendlist[f].dev_list
           /\ AliveConns(conns') = AliveConns(conns)

\* C33: add_device called for a friend that is still Added or Requested
\* returns an error, leaves the friend's device count and device list
\* unchanged and leaves no transport connection allocated for the rejected key
C33_PendingFriendRejectsDevice == [][C33_PendingStep]_vars

\* the connections of the devices of friend f
DeviceConns(fl, f) ==
    {fl[f].dev_list[d].friendcon_id : d \in 0 .. (fl[f].dev_count - 1)} \cap ConnIds

C34_RemoveStep ==
    \A f \in Occupied :
        (last'.op = "remove_friend" /\ last'.f = f /\ last'.ret = 0)
        => /\ \A c \in DeviceConns(friendlist, f) : ~conns'[c].alive
           /\ \A c \in ConnIds : conns'[c].cb = NoCb \/ conns'[c].cb[1] # f

\* C34: after remove_friend(i) no transport connection of a device of the
\* removed friend is alive, and no connection keeps callbacks registered for
\* index i
C34_RemoveClosesDevices == [][C34_RemoveStep]_vars

\* C35: in every reachable state num_sending_files of every occupied friend
\* is the number of its file_sending slots that are not None
C35_SendingFilesCounted ==
    \A f \in Occupied :
        friendlist[f].num_sending_files =
            Cardinality({p \in PipeIdx : friendlist[f].file_sending[p].status # FILESTATUS_NONE})

\* the tick reaped a finished file while the friend's other file goes on
C35_OneReapedOneLeft ==
    /\ last.op = "tick"
    /\ \E k \in 1 .. Len(cbs) : cbs[k][1] = "file_reqchunk" /\ cbs[k][5] = 0
    /\ \E f \in Occupied :
          /\ friendlist[f].num_sending_files = 1
          /\ \E p \in PipeIdx : friendlist[f].file_sending[p].status # FILESTATUS_NONE

\* the ONLINE packets among the packets q in flight
OnlinesIn(q) == Cardinality({n \in 1 .. Len(q) : q[n] = "ONLINE"})

OnlinesInFlight(w) == OnlinesIn(w.toA) + OnlinesIn(w.toB)

\* a step in which the oldest packet in flight, an ONLINE, arrives at A or at B
OnlineArrives ==
    \/ last'.op = "recv_ONLINE" /\ wire.toA # <<>> /\ wire'.toA = Tail(wire.toA)
    \/ last'.op = "peer_recv_ONLINE" /\ wire.toB # <<>> /\ wire'.toB = Tail(wire.toB)

C36_ExchangeStep ==
    (BothOnline /\ OnlineArrives) => OnlinesInFlight(wire') < OnlinesInFlight(wire)

\* C36: once both peers are Online the ONLINE exchange between them runs out:
\* every ONLINE packet that arrives at a peer whose friend is already Online
\* leaves fewer ONLINE packets in flight than there were, so that only
\* finitely many are sent while the transport status does not change
C36_OnlineExchangeEnds == [][C36_ExchangeStep]_vars

\* the KILL packets of A's outgoing transfer p as they travel to A and to B
KillToA(p) == <<"FILE_CONTROL", 1, p, FILECONTROL_KILL, 0>>
KillToB(p) == <<"FILE_CONTROL", 0, p, FILECONTROL_KILL, 0>>

KillsIn(q, kill) == Cardinality({n \in 1 .. Len(q) : q[n] = kill})

KillsInFlight(w, p) == KillsIn(w.toA, KillToA(p)) + KillsIn(w.toB, KillToB(p))

\* A's sending slot p and B's receiving slot p are both None
GoneOnBothSides(p) ==
    /\ friendlist[0].file_sending[p].status = FILESTATUS_NONE
    /\ peer.fl[0].file_receiving[p].status = FILESTATUS_NONE

\* a step in which the oldest packet in flight, a KILL of transfer p, arrives
KillArrives(p) ==
    \/ /\ last'.op = "recv_FILE_CONTROL"
       /\ wire.toA # <<>> /\ Head(wire.toA) = KillToA(p) /\ wire'.toA = Tail(wire.toA)
    \/ /\ last'.op = "peer_recv_FILE_CONTROL"
       /\ wire.toB # <<>> /\ Head(wire.toB) = KillToB(p) /\ wire'.toB = Tail(wire.toB)

C37_KillStep ==
    \A p \in PipeIdx :
        (BothOnline /\ GoneOnBothSides(p) /\ KillArrives(p))
            => KillsInFlight(wire', p) < KillsInFlight(wire, p)

\* C37: once a transfer is None on both sides the KILL exchange for it runs
\* out: every KILL that arrives for it leaves fewer KILL packets for that slot
\* in flight than there were, so that only finitely many are exchanged
C37_KillExchangeEnds == [][C37_KillStep]_vars

\* the ids of the messages the step took for sending to friend f
NewMessageIds(f) == (friendlist[f].message_id + 1) .. friendlist'[f].message_id

C38_ReplyStep ==
    last'.op = "tick_replying" =>
        \A id \in NewMessageIds(0) :
            \/ \E n \in 1 .. Len(friendlist'[0].receipts) : friendlist'[0].receipts[n].msg_id = id
            \/ \E k \in 1 .. Len(cbs') : cbs'[k] = <<"read_receipt", 0, id>>

\* C38: a message sent to the same friend from inside the read_receipt
\* callback keeps its receipt: after the drain its id is in the receipt queue
\* (or its read_receipt has fired), also when the callback ran for the last
\* entry of the queue
C38_ReplyReceiptKept == [][C38_ReplyStep]_vars

C39_ReceiptStep ==
    last'.op = "tick" =>
        \A k \in 1 .. Len(cbs') :
            cbs'[k][1] = "read_receipt" =>
                LET f == cbs'[k][2]
                    sent == hist.sent[f]
                IN  \A n \in 1 .. Len(sent) :
                        sent[n].id = cbs'[k][3]
                            => cryptpacket_received(Machine, sent[n].conn, sent[n].num) = 0

\* C39: read_receipt for a message fires only when the packet whose number was
\* recorded for it has been acknowledged on the connection of the device it
\* was written to
C39_ReceiptFromOwnDevice == [][C39_ReceiptStep]_vars

\* the file_filedata callbacks of callbacks q for receiving slot p of friend f
DataCallbacks(q, f, p) ==
    LET Hit(e) == e[1] = "file_filedata" /\ e[2] = f /\ e[3] = (p + 1) * 65536
    IN  SelectSeq(q, Hit)

\* the callbacks d start at position `from`, each starts where the one before
\* ended, and none of them ends past `size`
Contiguous(d, from, size) ==
    /\ d[1][4] = from
    /\ \A n \in 1 .. Len(d) - 1 : d[n + 1][4] = d[n][4] + d[n][5]
    /\ \A n \in 1 .. Len(d) : d[n][4] + d[n][5] <= size

\* one step seen from receiving slot p of friend f: data is handed over from
\* the position the transfer has reached, which is 0 for a new transfer, the
\* position of a successful file_seek, and else the end of the last data
C40_SlotStep(f, p) ==
    LET ft == friendlist[f].file_receiving[p]
        ftn == friendlist'[f].file_receiving[p]
        d == DataCallbacks(cbs', f, p)
    IN  IF d # <<>>
        THEN /\ ft.status = FILESTATUS_TRANSFERRING
             /\ Contiguous(d, ft.transferred, ft.size)
             /\ ftn.status # FILESTATUS_NONE =>
                    /\ ftn.transferred = d[Len(d)][4] + d[Len(d)][5]
                    /\ ftn.size = ft.size
        ELSE IF ftn.status = FILESTATUS_NONE THEN TRUE
        ELSE IF ft.status = FILESTATUS_NONE THEN ftn.transferred = 0
        ELSE /\ ftn.size = ft.size
             /\ \/ ftn.transferred = ft.transferred
                \/ /\ last'.op = "file_seek" /\ last'.ret = 0
                   /\ last'.arg = <<(p + 1) * 65536, ftn.transferred>>
                   /\ ft.status = FILESTATUS_NOT_ACCEPTED

C40_ReceiveStep ==
    \A f \in FriendIdx : \A p \in PipeIdx :
        (f \in Occupied /\ f < numfriends' /\ friendlist'[f].status # NOFRIEND) => C40_SlotStep(f, p)

\* C40: for every receiving transfer the positions handed to file_filedata are
\* contiguous, starting at 0 or at the seek position, and position plus
\* delivered length never exceeds the announced size
C40_ContiguousReceive == [][C40_ReceiveStep]_vars

\* data past the end of a file of 2000 bytes resumed at 1000 arrived and was cut
C40_ResumedAndCut ==
    /\ last.op = "recv_FILE_DATA"
    /\ Len(cbs) = 2
    /\ cbs[1] = <<"file_filedata", 0, 65536, 1000, 1000>>
    /\ cbs[2] = <<"file_filedata", 0, 65536, 2000, 0>>
====
